---------------------------- MODULE Spec2Model ----------------------------
(***************************************************************************)
(* A model of the GitHub activity scraper of src/main.py: the paginated    *)
(* fetches, the per-issue relationship resolution, the commit              *)
(* deduplication, the author aggregation and the run of main().            *)
(*                                                                         *)
(* Encoding of Python values:                                              *)
(*   - an optional string (a JSON field that may be null) is <<>> for      *)
(*     None and <<s>> for the string s;                                    *)
(*   - a commit message is a sequence of one-character strings, so that    *)
(*     slicing and the substring test are computed on it;                  *)
(*   - a dict with insertion order is a sequence of <<key, value>> pairs.  *)
(***************************************************************************)
EXTENDS Integers, Sequences, FiniteSets, TLC

VARIABLES
    pc,            \* position of the program (or of the function under call)
    stack,         \* return positions of the calls in progress, innermost first
    ret,           \* the value the last returning function returned
    log,           \* every HTTP request issued so far, with its status
    REPOS,         \* the configured repositories, in the order main's loops visit them
    USER_MAP,      \* the configured identity map: <<full name, usernames>> pairs
    USER_MAP_ONLY, \* the configured flag
    gh_search,     \* GitHub: repo -> field -> pages of the issue search
    gh_issues,     \* GitHub: repo -> number -> issue detail
    gh_tracked,    \* GitHub: repo -> number -> trackedIssues nodes
    gh_timeline,   \* GitHub: repo -> number -> pages of the issue timeline
    gh_pulls,      \* GitHub: repo -> number -> pages of the pull request's commits
    gh_commits,    \* GitHub: repo -> pages of the commit listing in the window
    s_field,       \* search_issues_by_field: field
    s_items,       \* search_issues_by_field: items
    s_page,        \* search_issues_by_field: page
    rc_commits,    \* fetch_repo_commits_in_range: commits
    rc_page,       \* fetch_repo_commits_in_range: page
    fs_nodes,      \* fetch_sub_issues: the nodes still to visit
    fs_detailed,   \* fetch_sub_issues: detailed
    issue_json,    \* gather_activity_for_issue: the argument
    info,          \* gather_activity_for_issue: info
    g_target,      \* gather_activity_for_issue: num, then si_num
    g_si,          \* gather_activity_for_issue: index of si in sub_issues (0: the issue itself)
    timeline_prs,  \* gather_activity_for_issue: the PR numbers still to visit
    extends,       \* history: every extend of info["commits"], with its origin
    created_items, \* fetch_issues_in_date_range: created_items
    numbers,       \* fetch_issues_in_date_range: sorted(numbers) still to fetch
    fi_issues,     \* fetch_issues_in_date_range: issues
    repo,          \* main: the repository being processed
    repo_idx,      \* main: its index in REPOS
    issues,        \* main: issues
    issue_idx,     \* main: index of the issue of the loop
    all_issues_info,  \* main: all_issues_info
    all_repo_commits, \* main: all_repo_commits
    author_data,   \* generate_quarto_report_per_author: author_data
    reports,       \* generate_quarto_report_per_author: reports
    username,      \* get_full_name_from_username: the argument
    full_name,     \* get_full_name_from_username: the returned name
    commits_list,  \* dedupe_commits: the argument
    deduped,       \* dedupe_commits: the returned list
    rededuped,     \* dedupe_commits applied to its own result
    since_arg,     \* --since: None when not given, else the text
    until_arg,     \* --until: None when not given, else the text
    since_dt,      \* main: None, or the parsed start of the window
    until_dt,      \* main: None, or the parsed end of the window
    since_str,     \* to_github_time_string of the start, << >> before it
    until_str      \* to_github_time_string of the end, << >> before it

ctlVars == <<pc, stack, ret, log>>

envVars ==
    <<REPOS, USER_MAP, USER_MAP_ONLY,
      gh_search, gh_issues, gh_tracked, gh_timeline, gh_pulls, gh_commits>>

searchVars == <<s_field, s_items, s_page>>

rcVars == <<rc_commits, rc_page>>

subVars == <<fs_nodes, fs_detailed>>

gatherVars == <<issue_json, info, g_target, g_si, timeline_prs, extends>>

fiVars == <<created_items, numbers, fi_issues>>

mainVars == <<repo, repo_idx, issues, issue_idx, all_issues_info, all_repo_commits>>

aggVars == <<author_data, reports>>

nameVars == <<username, full_name>>

dedupeVars == <<commits_list, deduped, rededuped>>

dateVars == <<since_arg, until_arg, since_dt, until_dt, since_str, until_str>>

vars ==
    <<ctlVars, envVars, searchVars, rcVars, subVars, gatherVars, fiVars, mainVars,
      aggVars, nameVars, dedupeVars, dateVars>>

-----------------------------------------------------------------------------
(* Bounds of the model *)

MaxCommits == 3

-----------------------------------------------------------------------------
(* Python values *)

None == <<>>

Some(s) == <<s>>

\* Python truthiness of an optional string: None and "" are falsy.
Truthy(v) == v # None /\ v[1] # ""

Min(a, b) == IF a < b THEN a ELSE b

\* s[:n]
Slice(s, n) == SubSeq(s, 1, Min(Len(s), n))

\* All sequences over S of length at most n.
SeqsUpTo(S, n) == UNION {[1..k -> S] : k \in 0..n}

\* The elements of a list.
Range(seq) == {seq[i] : i \in 1..Len(seq)}

\* list.count(x)
Count(seq, x) == Cardinality({i \in 1..Len(seq) : seq[i] = x})

RECURSIVE Join(_)
\* "".join(chars): the Python string of a sequence of characters.
Join(chars) == IF chars = <<>> THEN "" ELSE Head(chars) \o Join(Tail(chars))

-----------------------------------------------------------------------------
(* CommitRecord: {sha, msg, date, author, url}, as both commit-fetching    *)
(* paths build it.                                                         *)

CommitObj(sha, msg, date, author, url) ==
    [sha |-> sha, msg |-> msg, date |-> date, author |-> author, url |-> url]

\* json.dumps of an optional string.
JsonOpt(v) == IF v = None THEN "null" ELSE "\"" \o v[1] \o "\""

\* json.dumps(commit, sort_keys=True): the keys in sorted order.
JsonDumps(commit) ==
    "{\"author\": " \o JsonOpt(commit.author)
        \o ", \"date\": " \o JsonOpt(commit.date)
        \o ", \"msg\": \"" \o Join(commit.msg) \o "\""
        \o ", \"sha\": " \o JsonOpt(commit.sha)
        \o ", \"url\": " \o JsonOpt(commit.url) \o "}"

\* A mutant of DedupeKey: the sha alone is the key, also when it is absent.
DedupeKeyShaOnly(commit) == JsonOpt(commit.sha)

\* The key dedupe_commits looks up in `seen`: the sha when it is truthy,
\* otherwise the stringified commit.
DedupeKey(commit) ==
    IF ~Truthy(commit.sha) THEN JsonDumps(commit) ELSE commit.sha[1]

RECURSIVE DedupeLoop(_, _, _)
\* The loop of dedupe_commits over the rest of commits_list.
DedupeLoop(rest, seen, acc) ==
    IF rest = <<>> THEN acc
    ELSE LET commit == Head(rest)
             key == DedupeKey(commit)
         IN  IF key \in seen
             THEN DedupeLoop(Tail(rest), seen, acc)
             ELSE DedupeLoop(Tail(rest), seen \cup {key}, Append(acc, commit))

\* A mutant of dedupe_commits: the last occurrence of a key replaces the
\* first where the first stood (the list keeps the newest record).
dedupe_commits_keep_last(list) ==
    LET Last(i) == \A j \in (i+1)..Len(list) : DedupeKey(list[j]) # DedupeKey(list[i])
        First(i) == \A j \in 1..(i-1) : DedupeKey(list[j]) # DedupeKey(list[i])
        LastOf(i) == CHOOSE j \in i..Len(list) :
                        DedupeKey(list[j]) = DedupeKey(list[i]) /\ Last(j)
        RECURSIVE Build(_)
        Build(i) == IF i > Len(list) THEN <<>>
                    ELSE IF First(i) THEN <<list[LastOf(i)]>> \o Build(i + 1)
                    ELSE Build(i + 1)
    IN  Build(1)

dedupe_commits(list) == DedupeLoop(list, {}, <<>>)

-----------------------------------------------------------------------------
(* The GitHub API as the program sees it *)

\* per_page of the paginated fetches.
PerPage == 100

\* The length commit messages are cut to.
MsgLimit == 200

\* The statuses a response carries in the model: success, and a client error
\* (rate limit, missing repository, bad token).
Statuses == {200, 403}

\* A mutant of RaisesForStatus: the status of a response is never looked at.
StatusIgnored(status) == FALSE

\* response.raise_for_status(): raises requests.HTTPError for 4xx and 5xx.
RaisesForStatus(status) == status >= 400 /\ status < 600

\* One entry of the request log.
Req(kind, num, page, status) ==
    [kind |-> kind, num |-> num, page |-> page, status |-> status]

\* The page of a paginated endpoint the server returns for ?page=n: the
\* n-th page of the collection, and an empty list past its end.
ServedPage(pages, n) == IF n \in 1..Len(pages) THEN pages[n] ELSE <<>>

\* A commit as the REST API returns it.
RawCommit(sha, message, date, name, url) ==
    [sha |-> sha,
     commit |-> [message |-> message, author |-> [date |-> date, name |-> name]],
     html_url |-> url]

\* The commit object both fetch_commits_from_pr and
\* fetch_repo_commits_in_range build from a raw commit.
NormalizeCommit(raw) ==
    CommitObj(raw.sha, Slice(raw.commit.message, MsgLimit),
              raw.commit.author.date, raw.commit.author.name, raw.html_url)

NormalizeAll(data) == [i \in 1..Len(data) |-> NormalizeCommit(data[i])]

-----------------------------------------------------------------------------
(* Calls and returns *)

Call(entry, after) ==
    /\ pc' = entry
    /\ stack' = <<after>> \o stack

Return(value) ==
    /\ ret' = value
    /\ pc' = Head(stack)
    /\ stack' = Tail(stack)

\* An exception nothing catches: the run ends where it was raised.
Raise ==
    /\ pc' = "raised"
    /\ UNCHANGED <<stack, ret>>

-----------------------------------------------------------------------------
(* search_issues_by_field and fetch_repo_commits_in_range *)

\* A mutant of LastPage: a full page is taken for the last one as well.
LastPageOffByOne(n) == n <= PerPage

\* `if len(page_items) < per_page: break`
LastPage(n) == n < PerPage

\* One iteration of the loop of search_issues_by_field: the request for
\* page s_page, and what follows it up to the next request or the return.
SearchIssuesRequest ==
    /\ pc = "search"
    /\ \E status \in Statuses :
          LET page_items == ServedPage(gh_search[repo][s_field], s_page)
          IN  /\ log' = Append(log, Req("search_" \o s_field, 0, s_page, status))
              /\ IF RaisesForStatus(status)
                 THEN Raise /\ UNCHANGED searchVars
                 ELSE IF page_items = <<>>
                 THEN Return(s_items) /\ UNCHANGED searchVars
                 ELSE /\ s_items' = s_items \o page_items
                      /\ IF LastPage(Len(page_items))
                         THEN Return(s_items') /\ UNCHANGED s_page
                         ELSE /\ s_page' = s_page + 1
                              /\ UNCHANGED <<pc, stack, ret>>
                      /\ UNCHANGED s_field
    /\ UNCHANGED <<envVars, dateVars, fiVars, mainVars, aggVars, nameVars, rcVars, subVars, gatherVars, dedupeVars>>

\* One iteration of the loop of fetch_repo_commits_in_range.
RepoCommitsRequest ==
    /\ pc = "repo_commits"
    /\ \E status \in Statuses :
          LET data == ServedPage(gh_commits[repo], rc_page)
          IN  /\ log' = Append(log, Req("repo_commits", 0, rc_page, status))
              /\ IF RaisesForStatus(status)
                 THEN Raise /\ UNCHANGED rcVars
                 ELSE IF data = <<>>
                 THEN Return(rc_commits) /\ UNCHANGED rcVars
                 ELSE /\ rc_commits' = rc_commits \o NormalizeAll(data)
                      /\ IF LastPage(Len(data))
                         THEN Return(rc_commits') /\ UNCHANGED rc_page
                         ELSE /\ rc_page' = rc_page + 1
                              /\ UNCHANGED <<pc, stack, ret>>
    /\ UNCHANGED <<envVars, dateVars, fiVars, mainVars, aggVars, nameVars, searchVars, subVars, gatherVars, dedupeVars>>

-----------------------------------------------------------------------------
(* Issues, tracked issues, timelines *)

\* An issue as the REST API returns it. `user` is None for null and
\* Some(login) for {"login": login}, login being an optional string.
IssueJson(number, title, user) == [number |-> number, title |-> title, user |-> user]

\* A node of trackedIssues; number 0 stands for a number that is absent.
TrackedNode(number) == [number |-> number]

\* first:100 of the trackedIssues query.
TrackedFirst == 100

\* A timeline event; `source` is None when the event has no "source" key.
\* A source is [type, issue |-> [number]], number 0 standing for an absent one.
TimelineEvent(event, source) == [event |-> event, source |-> source]

CrossReference(type, number) ==
    TimelineEvent("cross-referenced", Some([type |-> type, issue |-> [number |-> number]]))

\* Whether fetch_prs_from_timeline appends a PR number for event e.
IsPRCrossReference(e) ==
    /\ e.event = "cross-referenced" /\ e.source # None
    /\ e.source[1].type = "pull_request"
    /\ e.source[1].issue.number # 0

RECURSIVE PRsOfEvents(_)
\* The loop of fetch_prs_from_timeline over the events of the response.
PRsOfEvents(data) ==
    IF data = <<>> THEN <<>>
    ELSE (IF IsPRCrossReference(Head(data))
          THEN <<Head(data).source[1].issue.number>> ELSE <<>>)
         \o PRsOfEvents(Tail(data))

\* What the server returns for a GET of a collection with no page
\* parameter: the collection's first page.
UnpagedResponse(pages) == ServedPage(pages, 1)

DigitChars == <<"0", "1", "2", "3", "4", "5", "6", "7", "8", "9">>

RECURSIVE Digits(_)
\* str(n) of a natural number, as characters.
Digits(n) == IF n < 10 THEN <<DigitChars[n + 1]>>
             ELSE Digits(n \div 10) \o <<DigitChars[(n % 10) + 1]>>

\* pat in s, for strings as character sequences.
Contains(s, pat) ==
    \E i \in 0..(Len(s) - Len(pat)) : SubSeq(s, i + 1, i + Len(pat)) = pat

\* A mutant of FilterMentions: every commit of the window is kept.
KeepsEveryCommit(all_commits, issue_number) == all_commits

RECURSIVE FilterMentions(_, _)
\* fetch_commits_search: the commits whose msg contains "#<issue_number>".
FilterMentions(all_commits, issue_number) ==
    IF all_commits = <<>> THEN <<>>
    ELSE (IF Contains(Head(all_commits).msg, <<"#">> \o Digits(issue_number))
          THEN <<Head(all_commits)>> ELSE <<>>)
         \o FilterMentions(Tail(all_commits), issue_number)

-----------------------------------------------------------------------------
(* fetch_sub_issues *)

\* The GraphQL request of fetch_sub_issues.
FetchSubIssuesQuery ==
    /\ pc = "graphql"
    /\ \E status \in Statuses :
          /\ log' = Append(log, Req("graphql", issue_json.number, 0, status))
          /\ IF RaisesForStatus(status)
             THEN Raise /\ UNCHANGED subVars
             ELSE /\ fs_nodes' = Slice(gh_tracked[repo][issue_json.number], TrackedFirst)
                  /\ fs_detailed' = <<>>
                  /\ pc' = "sub_issue"
                  /\ UNCHANGED <<stack, ret>>
    /\ UNCHANGED <<envVars, dateVars, fiVars, mainVars, aggVars, nameVars, searchVars, rcVars, gatherVars, dedupeVars>>

\* One iteration of the loop over the nodes: fetch_issue of a node that has
\* a number, nothing for one that has none.
FetchSubIssueDetail ==
    /\ pc = "sub_issue"
    /\ fs_nodes # <<>>
    /\ LET si_num == Head(fs_nodes).number
       IN  IF si_num = 0
           THEN /\ fs_nodes' = Tail(fs_nodes)
                /\ UNCHANGED <<ctlVars, fs_detailed>>
           ELSE \E status \in Statuses :
                   /\ log' = Append(log, Req("issue", si_num, 0, status))
                   /\ IF RaisesForStatus(status)
                      THEN Raise /\ UNCHANGED subVars
                      ELSE /\ fs_detailed' = Append(fs_detailed, gh_issues[repo][si_num])
                           /\ fs_nodes' = Tail(fs_nodes)
                           /\ UNCHANGED <<pc, stack, ret>>
    /\ UNCHANGED <<envVars, dateVars, fiVars, mainVars, aggVars, nameVars, searchVars, rcVars, gatherVars, dedupeVars>>

FetchSubIssuesReturn ==
    /\ pc = "sub_issue"
    /\ fs_nodes = <<>>
    /\ Return(fs_detailed)
    /\ UNCHANGED <<log, envVars, dateVars, fiVars, mainVars, aggVars, nameVars, searchVars, rcVars, subVars, gatherVars, dedupeVars>>

-----------------------------------------------------------------------------
(* gather_activity_for_issue, with fetch_prs_from_timeline,                *)
(* fetch_commits_from_pr and fetch_commits_search                          *)

\* A mutant of IsNewPR: the guard on pr_numbers is missing.
IsNewPRUnguarded(prn, pr_numbers) == TRUE

\* `if prn not in info["pr_numbers"]`
IsNewPR(prn, pr_numbers) == prn \notin pr_numbers

\* One extend of info["commits"]: its origin and the commits added.
Extend(src, num, commits) == [src |-> src, num |-> num, commits |-> commits]

\* The index of the next sub-issue after index i that has a number, or 0.
NextSubIssue(sub_issues, i) ==
    IF \E j \in (i + 1)..Len(sub_issues) : sub_issues[j].number # 0
    THEN CHOOSE j \in (i + 1)..Len(sub_issues) :
            /\ sub_issues[j].number # 0
            /\ \A k \in (i + 1)..(j - 1) : sub_issues[k].number = 0
    ELSE 0

\* Lines 461-469: info is built and fetch_sub_issues is called.
GatherStart ==
    /\ pc = "gather"
    /\ info' = [issue |-> issue_json, sub_issues |-> <<>>, pr_numbers |-> {},
                commits |-> <<>>]
    /\ extends' = <<>>
    /\ Call("graphql", "gather_sub_issues")
    /\ UNCHANGED <<ret, log, envVars, dateVars, fiVars, mainVars, aggVars, nameVars, searchVars, rcVars, subVars,
                   issue_json, g_target, g_si, timeline_prs, dedupeVars>>

\* Lines 470-472: the sub-issues are stored and the timeline of the issue
\* itself is asked for.
GatherSubIssues ==
    /\ pc = "gather_sub_issues"
    /\ info' = [info EXCEPT !.sub_issues = ret]
    /\ g_target' = issue_json.number
    /\ g_si' = 0
    /\ Call("timeline", "gather_timeline")
    /\ UNCHANGED <<ret, log, envVars, dateVars, fiVars, mainVars, aggVars, nameVars, searchVars, rcVars, subVars,
                   issue_json, timeline_prs, extends, dedupeVars>>

\* fetch_prs_from_timeline: one GET of the timeline, with no page parameter.
FetchTimeline ==
    /\ pc = "timeline"
    /\ \E status \in Statuses :
          /\ log' = Append(log, Req("timeline", g_target, 0, status))
          /\ IF RaisesForStatus(status)
             THEN Raise
             ELSE Return(PRsOfEvents(UnpagedResponse(gh_timeline[repo][g_target])))
    /\ UNCHANGED <<envVars, dateVars, fiVars, mainVars, aggVars, nameVars, searchVars, rcVars, subVars, gatherVars, dedupeVars>>

\* `timeline_prs = fetch_prs_from_timeline(...)`
GatherTimeline ==
    /\ pc = "gather_timeline"
    /\ timeline_prs' = ret
    /\ pc' = "gather_pr"
    /\ UNCHANGED <<stack, ret, log, envVars, dateVars, fiVars, mainVars, aggVars, nameVars, searchVars, rcVars, subVars,
                   issue_json, info, g_target, g_si, extends, dedupeVars>>

\* One iteration of `for prn in timeline_prs`: a PR number not yet in
\* pr_numbers is added and fetch_commits_from_pr (one GET, with no page
\* parameter) gives the commits to extend with.
GatherPR ==
    /\ pc = "gather_pr"
    /\ timeline_prs # <<>>
    /\ LET prn == Head(timeline_prs)
       IN  IF ~IsNewPR(prn, info.pr_numbers)
           THEN /\ timeline_prs' = Tail(timeline_prs)
                /\ UNCHANGED <<ctlVars, info, extends>>
           ELSE \E status \in Statuses :
                   /\ log' = Append(log, Req("pr_commits", prn, 0, status))
                   /\ IF RaisesForStatus(status)
                      THEN Raise /\ UNCHANGED <<timeline_prs, info, extends>>
                      ELSE LET pr_commits ==
                                  NormalizeAll(UnpagedResponse(gh_pulls[repo][prn]))
                           IN  /\ info' = [info EXCEPT
                                             !.pr_numbers = @ \cup {prn},
                                             !.commits = @ \o pr_commits]
                               /\ extends' = Append(extends, Extend("pr", prn, pr_commits))
                               /\ timeline_prs' = Tail(timeline_prs)
                               /\ UNCHANGED <<pc, stack, ret>>
    /\ UNCHANGED <<envVars, dateVars, fiVars, mainVars, aggVars, nameVars, searchVars, rcVars, subVars, issue_json, g_target, g_si,
                   dedupeVars>>

\* The loop over timeline_prs is over: fetch_commits_search calls
\* fetch_repo_commits_in_range.
GatherCommitsSearch ==
    /\ pc = "gather_pr"
    /\ timeline_prs = <<>>
    /\ rc_commits' = <<>>
    /\ rc_page' = 1
    /\ Call("repo_commits", "gather_search")
    /\ UNCHANGED <<ret, log, envVars, dateVars, fiVars, mainVars, aggVars, nameVars, searchVars, subVars, gatherVars, dedupeVars>>

\* fetch_commits_search filters what fetch_repo_commits_in_range returned,
\* info["commits"] is extended, and the loop moves to the next sub-issue
\* that has a number, or info is returned.
GatherSearched ==
    /\ pc = "gather_search"
    /\ LET search_commits == FilterMentions(ret, g_target)
           next == NextSubIssue(info.sub_issues, g_si)
           done == [info EXCEPT !.commits = @ \o search_commits]
       IN  /\ info' = done
           /\ extends' = Append(extends, Extend("search", g_target, search_commits))
           /\ IF next = 0
              THEN Return(done) /\ UNCHANGED <<g_target, g_si>>
              ELSE /\ g_si' = next
                   /\ g_target' = info.sub_issues[next].number
                   /\ Call("timeline", "gather_timeline")
                   /\ UNCHANGED ret
    /\ UNCHANGED <<log, envVars, dateVars, fiVars, mainVars, aggVars, nameVars, searchVars, rcVars, subVars, issue_json, timeline_prs,
                   dedupeVars>>

-----------------------------------------------------------------------------
(* fetch_issues_in_date_range and fetch_issue *)

RECURSIVE Sorted(_)
\* sorted(S) of a set of numbers.
Sorted(S) ==
    IF S = {} THEN <<>>
    ELSE LET least == CHOOSE n \in S : \A m \in S : n <= m
         IN  <<least>> \o Sorted(S \ {least})

\* A mutant of IssueOrder: the numbers as the searches returned them.
IssueOrderAsReturned(items) == [i \in 1..Len(items) |-> items[i].number]

\* `sorted({item["number"] for item in created_items + updated_items})`
IssueOrder(items) == Sorted({items[i].number : i \in 1..Len(items)})

\* Lines 226-229: the search on `created` is called.
FetchIssuesStart ==
    /\ pc = "fetch_issues"
    /\ s_field' = "created"
    /\ s_items' = <<>>
    /\ s_page' = 1
    /\ Call("search", "fetch_issues_created")
    /\ UNCHANGED <<ret, log, envVars, dateVars, rcVars, subVars, gatherVars, fiVars, mainVars,
                   aggVars, nameVars, dedupeVars>>

\* Line 230: the search on `updated` is called.
FetchIssuesCreated ==
    /\ pc = "fetch_issues_created"
    /\ created_items' = ret
    /\ s_field' = "updated"
    /\ s_items' = <<>>
    /\ s_page' = 1
    /\ Call("search", "fetch_issues_updated")
    /\ UNCHANGED <<ret, log, envVars, dateVars, rcVars, subVars, gatherVars, numbers, fi_issues,
                   mainVars, aggVars, nameVars, dedupeVars>>

\* Lines 232-233: the numbers of both searches, unique and sorted.
FetchIssuesUpdated ==
    /\ pc = "fetch_issues_updated"
    /\ numbers' = IssueOrder(created_items \o ret)
    /\ fi_issues' = <<>>
    /\ pc' = "fetch_issue"
    /\ UNCHANGED <<stack, ret, log, envVars, dateVars, searchVars, rcVars, subVars, gatherVars,
                   created_items, mainVars, aggVars, nameVars, dedupeVars>>

\* One iteration of `for num in sorted(numbers)`: fetch_issue.
FetchIssueDetail ==
    /\ pc = "fetch_issue"
    /\ numbers # <<>>
    /\ \E status \in Statuses :
          /\ log' = Append(log, Req("issue", Head(numbers), 0, status))
          /\ IF RaisesForStatus(status)
             THEN Raise /\ UNCHANGED <<numbers, fi_issues>>
             ELSE /\ fi_issues' = Append(fi_issues, gh_issues[repo][Head(numbers)])
                  /\ numbers' = Tail(numbers)
                  /\ UNCHANGED <<pc, stack, ret>>
    /\ UNCHANGED <<envVars, dateVars, searchVars, rcVars, subVars, gatherVars, created_items,
                   mainVars, aggVars, nameVars, dedupeVars>>

FetchIssuesReturn ==
    /\ pc = "fetch_issue"
    /\ numbers = <<>>
    /\ Return(fi_issues)
    /\ UNCHANGED <<log, envVars, dateVars, searchVars, rcVars, subVars, gatherVars, fiVars,
                   mainVars, aggVars, nameVars, dedupeVars>>

-----------------------------------------------------------------------------
(* get_full_name_from_username and get_author_name *)

RECURSIVE FirstAliasOnly(_, _)
\* A mutant of UserMapLookup: only the first username of each entry is
\* compared.
FirstAliasOnly(map, name) ==
    IF map = <<>> THEN name
    ELSE IF Head(map)[2] # <<>> /\ Head(map)[2][1] = name THEN Head(map)[1]
    ELSE FirstAliasOnly(Tail(map), name)

RECURSIVE UserMapLookup(_, _)
\* The loop of get_full_name_from_username over USER_MAP.items().
UserMapLookup(map, name) ==
    IF map = <<>> THEN name
    ELSE IF name \in Range(Head(map)[2]) THEN Head(map)[1]
    ELSE UserMapLookup(Tail(map), name)

get_full_name_from_username(name) == UserMapLookup(USER_MAP, name)

\* `x or "unknown"` of an optional string.
OrUnknown(v) == IF Truthy(v) THEN v[1] ELSE "unknown"

\* Whether get_author_name(obj) raises: obj["user"] is None, and None has
\* no .get.
AuthorNameRaises(obj) == "user" \in DOMAIN obj /\ obj.user = None

\* get_author_name(obj), for an obj it does not raise on.
get_author_name(obj) ==
    IF DOMAIN obj = {} THEN "unknown"
    ELSE IF "user" \in DOMAIN obj
    THEN get_full_name_from_username(OrUnknown(obj.user[1]))
    ELSE IF "author" \in DOMAIN obj
    THEN get_full_name_from_username(OrUnknown(obj.author))
    ELSE "unknown"

-----------------------------------------------------------------------------
(* generate_quarto_report_per_author *)

\* author_data is a dict in insertion order: a list of buckets, one per
\* author.
Bucket(author, bucket_issues, bucket_commits) ==
    [author |-> author, issues |-> bucket_issues, commits |-> bucket_commits]

Authors(data) == {data[i].author : i \in 1..Len(data)}

IndexOfAuthor(data, author) == CHOOSE i \in 1..Len(data) : data[i].author = author

\* author_data.setdefault(author, {"issues": [], "commits": []})
SetDefault(data, author) ==
    IF author \in Authors(data) THEN data
    ELSE Append(data, Bucket(author, <<>>, <<>>))

AppendIssue(data, author, an_info) ==
    [data EXCEPT ![IndexOfAuthor(data, author)].issues = Append(@, an_info)]

AppendCommit(data, author, commit) ==
    [data EXCEPT ![IndexOfAuthor(data, author)].commits = Append(@, commit)]

\* A mutant of CommitIsIssueAuthors: every commit linked to the issue goes
\* to the bucket of the issue's author.
CommitIsLinked(commit, issue_author) == TRUE

\* `if get_author_name(commit) == issue_author`
CommitIsIssueAuthors(commit, issue_author) == get_author_name(commit) = issue_author

RECURSIVE AddIssueCommits(_, _, _)
\* Lines 620-622.
AddIssueCommits(data, issue_author, commits) ==
    IF commits = <<>> THEN data
    ELSE AddIssueCommits(
            IF CommitIsIssueAuthors(Head(commits), issue_author)
            THEN AppendCommit(data, issue_author, Head(commits)) ELSE data,
            issue_author, Tail(commits))

RECURSIVE AddIssues(_, _)
\* Lines 615-622.
AddIssues(data, issues_info) ==
    IF issues_info = <<>> THEN data
    ELSE LET an_info == Head(issues_info)
             issue_author == get_author_name(an_info.issue)
             with_issue == AppendIssue(SetDefault(data, issue_author), issue_author, an_info)
         IN  AddIssues(AddIssueCommits(with_issue, issue_author, an_info.commits),
                       Tail(issues_info))

RECURSIVE AddRepoCommits(_, _)
\* Lines 624-627.
AddRepoCommits(data, repo_commits) ==
    IF repo_commits = <<>> THEN data
    ELSE LET author == get_author_name(Head(repo_commits))
         IN  AddRepoCommits(AppendCommit(SetDefault(data, author), author, Head(repo_commits)),
                            Tail(repo_commits))

\* Lines 613-627.
AuthorData(issues_info, repo_commits) ==
    AddRepoCommits(AddIssues(<<>>, issues_info), repo_commits)

\* A mutant of SkipsAuthor: the flag is not looked at.
NeverSkips(author) == FALSE

\* `if USER_MAP_ONLY and author not in USER_MAP: continue`
SkipsAuthor(author) ==
    USER_MAP_ONLY /\ author \notin {USER_MAP[i][1] : i \in 1..Len(USER_MAP)}

\* The commits listed under an issue of the author's report (line 670).
IssueCommitsOf(an_info, author) ==
    SelectSeq(dedupe_commits(an_info.commits), LAMBDA c : get_author_name(c) = author)

\* Whether writing a commit line raises: commit.get("sha", "")[:7] on a sha
\* that is None, or splitlines()[0] on an empty message.
CommitLineRaises(commit) == commit.sha = None \/ commit.msg = <<>>

\* The commits the report of a bucket writes a line for.
ListedCommits(bucket) ==
    UNION {Range(IssueCommitsOf(bucket.issues[i], bucket.author)) :
              i \in 1..Len(bucket.issues)}
        \cup Range(dedupe_commits(bucket.commits))

\* The report of one author: whose it is, its issue sections and its
\* section of commits in the interval.
Report(bucket) ==
    [author |-> bucket.author,
     sections |-> [i \in 1..Len(bucket.issues) |->
                     [number |-> bucket.issues[i].issue.number,
                      prs |-> Sorted(bucket.issues[i].pr_numbers),
                      commits |-> IssueCommitsOf(bucket.issues[i], bucket.author)]],
     interval |-> dedupe_commits(bucket.commits)]

\* The index of the first bucket whose report raises, 0 if none does.
FirstRaising(data) ==
    LET raising == {i \in 1..Len(data) :
                      /\ ~SkipsAuthor(data[i].author)
                      /\ \E c \in ListedCommits(data[i]) : CommitLineRaises(c)}
    IN  IF raising = {} THEN 0 ELSE CHOOSE i \in raising : \A j \in raising : i <= j

RECURSIVE Reports(_, _)
\* The loop of lines 631-702 over the first n buckets: the reports saved.
Reports(data, n) ==
    IF n = 0 THEN <<>>
    ELSE Reports(data, n - 1)
            \o (IF SkipsAuthor(data[n].author) THEN <<>> ELSE <<Report(data[n])>>)

\* generate_quarto_report_per_author, as main calls it, and the end of main.
GenerateReport ==
    /\ pc = "report"
    /\ IF \E i \in 1..Len(all_issues_info) : AuthorNameRaises(all_issues_info[i].issue)
       THEN Raise /\ UNCHANGED <<aggVars, log>>
       ELSE LET data == AuthorData(all_issues_info, all_repo_commits)
                bad == FirstRaising(data)
            IN  /\ author_data' = data
                /\ IF bad = 0
                   THEN /\ reports' = Reports(data, Len(data))
                        /\ pc' = "done"
                        /\ UNCHANGED <<stack, ret, log>>
                   ELSE /\ reports' = Reports(data, bad - 1)
                        /\ Raise
                        /\ UNCHANGED log
    /\ UNCHANGED <<envVars, dateVars, searchVars, rcVars, subVars, gatherVars, fiVars, mainVars,
                   nameVars, dedupeVars>>

\* A call of get_full_name_from_username.
ResolveName ==
    /\ pc = "resolve"
    /\ full_name' = get_full_name_from_username(username)
    /\ pc' = "resolved"
    /\ UNCHANGED <<stack, ret, log, envVars, dateVars, searchVars, rcVars, subVars, gatherVars,
                   fiVars, mainVars, aggVars, username, dedupeVars>>

-----------------------------------------------------------------------------
(* parse_date_input and to_github_time_string *)

\* A datetime of zone America/Sao_Paulo.
DateTime(year, month, day, hour, minute, second, microsecond) ==
    [year |-> year, month |-> month, day |-> day, hour |-> hour, minute |-> minute,
     second |-> second, microsecond |-> microsecond, tzinfo |-> "America/Sao_Paulo"]

\* The UTC offset of America/Sao_Paulo in seconds: -03:00 all year since
\* 2019, the years the dates of the model lie in.
SaoPauloOffset == -(3 * 3600)

IsDigits(s) == s # <<>> /\ \A i \in 1..Len(s) : \E d \in 1..10 : DigitChars[d] = s[i]

DigitValue(c) == (CHOOSE d \in 1..10 : DigitChars[d] = c) - 1

RECURSIVE Number(_)
\* int(s) of a string of digits.
Number(s) ==
    IF s = <<>> THEN 0
    ELSE 10 * Number(SubSeq(s, 1, Len(s) - 1)) + DigitValue(s[Len(s)])

RECURSIVE Pad(_, _)
\* A string of digits filled with zeros on the left up to width w.
Pad(digits, w) == IF Len(digits) >= w THEN digits ELSE Pad(<<"0">> \o digits, w)

IsLeap(y) == (y % 4 = 0 /\ y % 100 # 0) \/ y % 400 = 0

DaysInMonth(y, m) ==
    IF m = 2 THEN (IF IsLeap(y) THEN 29 ELSE 28)
    ELSE IF m \in {4, 6, 9, 11} THEN 30 ELSE 31

\* The dates datetime accepts.
ValidDate(y, m, d) == y \in 1..9999 /\ m \in 1..12 /\ d \in 1..DaysInMonth(y, m)

Whitespace == {" ", "\t", "\n"}

RECURSIVE LStrip(_)
LStrip(s) == IF s # <<>> /\ Head(s) \in Whitespace THEN LStrip(Tail(s)) ELSE s

RECURSIVE RStrip(_)
RStrip(s) ==
    IF s # <<>> /\ s[Len(s)] \in Whitespace THEN RStrip(SubSeq(s, 1, Len(s) - 1)) ELSE s

\* s.strip()
Strip(s) == RStrip(LStrip(s))

\* s.count(c)
CountOf(s, c) == Cardinality({i \in 1..Len(s) : s[i] = c})

\* datetime.strptime(s, "%Y-%m-%d") of a string of 10 characters: None when
\* it raises, else <<year, month, day>>.  %Y is four digits; with two
\* hyphens in ten characters %m and %d have two characters each, %m two
\* digits and %d two digits or a space and a digit.
Strptime(s) ==
    LET y == SubSeq(s, 1, 4)
        m == SubSeq(s, 6, 7)
        d == IF s[9] = " " THEN SubSeq(s, 10, 10) ELSE SubSeq(s, 9, 10)
    IN  IF /\ s[5] = "-" /\ s[8] = "-"
           /\ IsDigits(y) /\ IsDigits(m) /\ IsDigits(d)
           /\ ValidDate(Number(y), Number(m), Number(d))
        THEN Some(<<Number(y), Number(m), Number(d)>>)
        ELSE None

\* The time of day HH[:MM[:SS]] of an ISO string: None, or the second of
\* the day.
IsoTime(t) ==
    LET hh == SubSeq(t, 1, 2)
        mm == IF Len(t) >= 5 THEN SubSeq(t, 4, 5) ELSE <<"0", "0">>
        ss == IF Len(t) >= 8 THEN SubSeq(t, 7, 8) ELSE <<"0", "0">>
    IN  IF /\ Len(t) \in {2, 5, 8}
           /\ Len(t) >= 5 => t[3] = ":"
           /\ Len(t) >= 8 => t[6] = ":"
           /\ IsDigits(hh) /\ IsDigits(mm) /\ IsDigits(ss)
           /\ Number(hh) < 24 /\ Number(mm) < 60 /\ Number(ss) < 60
        THEN Some(Number(hh) * 3600 + Number(mm) * 60 + Number(ss))
        ELSE None

\* The UTC offset +HH:MM or -HH:MM of an ISO string: None, or its seconds.
IsoOffset(o) ==
    IF /\ Len(o) = 6 /\ o[1] \in {"+", "-"} /\ o[4] = ":"
       /\ IsDigits(SubSeq(o, 2, 3)) /\ IsDigits(SubSeq(o, 5, 6))
       /\ Number(SubSeq(o, 2, 3)) < 24 /\ Number(SubSeq(o, 5, 6)) < 60
    THEN Some((IF o[1] = "-" THEN -1 ELSE 1)
                 * (Number(SubSeq(o, 2, 3)) * 3600 + Number(SubSeq(o, 5, 6)) * 60))
    ELSE None

\* datetime.fromisoformat(s) of YYYY-MM-DD, a separator, HH[:MM[:SS]] and
\* an optional offset, without fraction of a second: None when it raises,
\* else the date, the second of the day and the offset (None when naive).
FromIsoFormat(s) ==
    LET aware == Len(s) >= 19 /\ s[Len(s) - 5] \in {"+", "-"}
        date == SubSeq(s, 1, 10)
        time == SubSeq(s, 12, IF aware THEN Len(s) - 6 ELSE Len(s))
        offset == IF aware THEN IsoOffset(SubSeq(s, Len(s) - 5, Len(s))) ELSE None
    IN  IF /\ Len(s) >= 13
           /\ s[11] \in {"T", " "}
           /\ s[9] # " " /\ Strptime(date) # None
           /\ IsoTime(time) # None
           /\ aware => offset # None
        THEN Some([date |-> Strptime(date)[1], seconds |-> IsoTime(time)[1],
                   offset |-> offset])
        ELSE None

RECURSIVE ShiftDays(_, _)
\* The date n days after (before, when n < 0) a date <<year, month, day>>.
ShiftDays(date, n) ==
    LET y == date[1]
        m == date[2]
        d == date[3]
    IN  IF n = 0 THEN date
        ELSE IF n > 0
        THEN ShiftDays(IF d < DaysInMonth(y, m) THEN <<y, m, d + 1>>
                       ELSE IF m < 12 THEN <<y, m + 1, 1>> ELSE <<y + 1, 1, 1>>, n - 1)
        ELSE ShiftDays(IF d > 1 THEN <<y, m, d - 1>>
                       ELSE IF m > 1 THEN <<y, m - 1, DaysInMonth(y, m - 1)>>
                       ELSE <<y - 1, 12, 31>>, n + 1)

\* The datetime of zone America/Sao_Paulo at `seconds` of the day `date`.
OnDay(date, seconds) ==
    DateTime(date[1], date[2], date[3], seconds \div 3600, (seconds % 3600) \div 60,
             seconds % 60, 0)

\* d.astimezone(tz_sp) of the wall time `seconds` of `date` at UTC offset
\* `offset`.
AsTimeZone(date, seconds, offset) ==
    LET local == seconds - offset + SaoPauloOffset
    IN  OnDay(ShiftDays(date, local \div 86400), local % 86400)

\* Lines 86-95: d.replace(tzinfo=tz_sp) of a naive datetime,
\* d.astimezone(tz_sp) of an aware one.
Localized(iso) ==
    IF iso.offset = None THEN OnDay(iso.date, iso.seconds)
    ELSE AsTimeZone(iso.date, iso.seconds, iso.offset[1])

\* A mutant of Combine: a bare date is the start of its day whatever the
\* flag.
CombineWithTimeMin(date, default_time_start) ==
    DateTime(date[1], date[2], date[3], 0, 0, 0, 0)

\* Lines 81-84: datetime.combine of the date with time.min (00:00:00) or
\* time.max (23:59:59.999999).
Combine(date, default_time_start) ==
    IF default_time_start
    THEN DateTime(date[1], date[2], date[3], 0, 0, 0, 0)
    ELSE DateTime(date[1], date[2], date[3], 23, 59, 59, 999999)

\* parse_date_input(s, default_time_start) of a string: None when it raises
\* ValueError, else the datetime.
parse_date_input(text, default_time_start) ==
    LET s == Strip(text)
    IN  IF Len(s) = 10 /\ CountOf(s, "-") = 2
        THEN LET d == Strptime(s)
             IN  IF d = None THEN None
                 ELSE Some(Combine(d[1], default_time_start))
        ELSE LET s2 == IF s # <<>> /\ s[Len(s)] = "Z"
                       THEN SubSeq(s, 1, Len(s) - 1) \o <<"+", "0", "0", ":", "0", "0">>
                       ELSE s
                 iso == FromIsoFormat(s2)
             IN  IF iso = None THEN None ELSE Some(Localized(iso[1]))

\* The offset of isoformat(): +HH:MM or -HH:MM.
OffsetChars(offset) ==
    LET a == IF offset < 0 THEN -offset ELSE offset
    IN  <<IF offset < 0 THEN "-" ELSE "+">>
           \o Pad(Digits(a \div 3600), 2) \o <<":">> \o Pad(Digits((a % 3600) \div 60), 2)

\* to_github_time_string(d) of a datetime of zone America/Sao_Paulo:
\* isoformat(timespec="seconds"), which leaves the microseconds out.
to_github_time_string(d) ==
    Pad(Digits(d.year), 4) \o <<"-">> \o Pad(Digits(d.month), 2) \o <<"-">>
       \o Pad(Digits(d.day), 2) \o <<"T">> \o Pad(Digits(d.hour), 2) \o <<":">>
       \o Pad(Digits(d.minute), 2) \o <<":">> \o Pad(Digits(d.second), 2)
       \o OffsetChars(SaoPauloOffset)

\* DEFAULT_START
DEFAULT_START == <<"2", "0", "2", "0", "-", "0", "1", "-", "0", "1", "T", "0", "0", ":", "0", "0", ":", "0", "0", "Z">>

\* DEFAULT_END: the time at which the module was loaded, in UTC.
DefaultEnds == {<<"2", "0", "2", "3", "-", "0", "6", "-", "0", "3", "T", "1", "5", ":", "0", "0", ":", "0", "0", "Z">>}

\* `if args.since:` - an option that was given with a non-empty value.
Given(arg) == arg # None /\ arg[1] # <<>>

\* A mutant of ParseRaises: the failure of the parse is not noticed.
ParseErrorSwallowed(parsed) == FALSE

\* Whether parse_date_input raised.
ParseRaises(parsed) == parsed = None

\* Lines 756-759: since_dt = parse_date_input(..., default_time_start=True)
ParseSince ==
    /\ pc = "parse_since"
    /\ LET parsed == parse_date_input(IF Given(since_arg) THEN since_arg[1]
                                      ELSE DEFAULT_START, TRUE)
       IN  IF ParseRaises(parsed)
           THEN Raise /\ UNCHANGED since_dt
           ELSE /\ since_dt' = parsed
                /\ pc' = "parse_until"
                /\ UNCHANGED <<stack, ret>>
    /\ UNCHANGED <<log, envVars, searchVars, rcVars, subVars, gatherVars, fiVars, mainVars,
                   aggVars, nameVars, dedupeVars, since_arg, until_arg, until_dt,
                   since_str, until_str>>

\* Lines 761-764: until_dt = parse_date_input(..., default_time_start=False)
ParseUntil ==
    /\ pc = "parse_until"
    /\ \E text \in IF Given(until_arg) THEN {until_arg[1]} ELSE DefaultEnds :
          LET parsed == parse_date_input(text, FALSE)
          IN  IF ParseRaises(parsed)
              THEN Raise /\ UNCHANGED until_dt
              ELSE /\ until_dt' = parsed
                   /\ pc' = "main"
                   /\ UNCHANGED <<stack, ret>>
    /\ UNCHANGED <<log, envVars, searchVars, rcVars, subVars, gatherVars, fiVars, mainVars,
                   aggVars, nameVars, dedupeVars, since_arg, until_arg, since_dt,
                   since_str, until_str>>

\* Lines 226-227: the two ends of the window as the query strings.
FormatWindow ==
    /\ pc = "main"
    /\ since_str' = to_github_time_string(since_dt[1])
    /\ until_str' = to_github_time_string(until_dt[1])
    /\ pc' = "formatted"
    /\ UNCHANGED <<stack, ret, log, envVars, searchVars, rcVars, subVars, gatherVars,
                   fiVars, mainVars, aggVars, nameVars, dedupeVars, since_arg, until_arg,
                   since_dt, until_dt>>

-----------------------------------------------------------------------------
(* main *)

\* Lines 768-769.
MainStart ==
    /\ pc = "main"
    /\ all_issues_info' = <<>>
    /\ all_repo_commits' = <<>>
    /\ repo_idx' = 1
    /\ pc' = "main_repo"
    /\ UNCHANGED <<stack, ret, log, envVars, dateVars, searchVars, rcVars, subVars, gatherVars,
                   fiVars, repo, issues, issue_idx, aggVars, nameVars, dedupeVars>>

\* Lines 771-775: the next repository, if any, and the call of
\* fetch_issues_in_date_range; line 784 after the last one.
MainRepo ==
    /\ pc = "main_repo"
    /\ IF repo_idx <= Len(REPOS)
       THEN /\ repo' = REPOS[repo_idx]
            /\ Call("fetch_issues", "main_issues")
       ELSE /\ pc' = "report"
            /\ UNCHANGED <<stack, repo>>
    /\ UNCHANGED <<ret, log, envVars, dateVars, searchVars, rcVars, subVars, gatherVars, fiVars,
                   repo_idx, issues, issue_idx, all_issues_info, all_repo_commits,
                   aggVars, nameVars, dedupeVars>>

\* Line 775: issues = fetch_issues_in_date_range(...)
MainIssues ==
    /\ pc = "main_issues"
    /\ issues' = ret
    /\ issue_idx' = 1
    /\ pc' = "main_issue"
    /\ UNCHANGED <<stack, ret, log, envVars, dateVars, searchVars, rcVars, subVars, gatherVars,
                   fiVars, repo, repo_idx, all_issues_info, all_repo_commits,
                   aggVars, nameVars, dedupeVars>>

\* Lines 777-781: gather_activity_for_issue for the next issue, or
\* fetch_repo_commits_in_range after the last one.
MainIssue ==
    /\ pc = "main_issue"
    /\ IF issue_idx <= Len(issues)
       THEN /\ issue_json' = issues[issue_idx]
            /\ Call("gather", "main_info")
            /\ UNCHANGED rcVars
       ELSE /\ rc_commits' = <<>>
            /\ rc_page' = 1
            /\ Call("repo_commits", "main_harvest")
            /\ UNCHANGED issue_json
    /\ UNCHANGED <<ret, log, envVars, dateVars, searchVars, subVars, info, g_target, g_si,
                   timeline_prs, extends, fiVars, mainVars, aggVars, nameVars, dedupeVars>>

\* Line 779: all_issues_info.append(info)
MainInfo ==
    /\ pc = "main_info"
    /\ all_issues_info' = Append(all_issues_info, ret)
    /\ issue_idx' = issue_idx + 1
    /\ pc' = "main_issue"
    /\ UNCHANGED <<stack, ret, log, envVars, dateVars, searchVars, rcVars, subVars, gatherVars,
                   fiVars, repo, repo_idx, issues, all_repo_commits, aggVars, nameVars,
                   dedupeVars>>

\* Line 782: all_repo_commits.extend(repo_commits)
MainHarvest ==
    /\ pc = "main_harvest"
    /\ all_repo_commits' = all_repo_commits \o ret
    /\ repo_idx' = repo_idx + 1
    /\ pc' = "main_repo"
    /\ UNCHANGED <<stack, ret, log, envVars, dateVars, searchVars, rcVars, subVars, gatherVars,
                   fiVars, repo, issues, issue_idx, all_issues_info, aggVars, nameVars,
                   dedupeVars>>

-----------------------------------------------------------------------------
(* States in which a part of the program is not in use *)

IdleControl ==
    /\ stack = <<>>
    /\ ret = <<>>
    /\ log = <<>>

NoGitHub ==
    /\ REPOS = <<>>
    /\ USER_MAP = <<>>
    /\ USER_MAP_ONLY = FALSE
    /\ gh_search = <<>>
    /\ gh_issues = <<>>
    /\ gh_tracked = <<>>
    /\ gh_timeline = <<>>
    /\ gh_pulls = <<>>
    /\ gh_commits = <<>>

IdleSearch ==
    /\ s_field = ""
    /\ s_items = <<>>
    /\ s_page = 0

IdleRepoCommits ==
    /\ rc_commits = <<>>
    /\ rc_page = 0

IdleDedupe ==
    /\ commits_list = <<>>
    /\ deduped = <<>>
    /\ rededuped = <<>>

IdleGather ==
    /\ fs_nodes = <<>>
    /\ fs_detailed = <<>>
    /\ issue_json = <<>>
    /\ info = <<>>
    /\ g_target = 0
    /\ g_si = 0
    /\ timeline_prs = <<>>
    /\ extends = <<>>

IdleFetchIssues ==
    /\ created_items = <<>>
    /\ numbers = <<>>
    /\ fi_issues = <<>>

\* main is not running; the function under call works on repository r.
OutsideMain(r) ==
    /\ repo = r
    /\ repo_idx = 0
    /\ issues = <<>>
    /\ issue_idx = 0
    /\ all_issues_info = <<>>
    /\ all_repo_commits = <<>>

IdleReport ==
    /\ author_data = <<>>
    /\ reports = <<>>

IdleNames ==
    /\ username = ""
    /\ full_name = ""

\* No date was given or parsed.
IdleDates ==
    /\ since_arg = <<>>
    /\ until_arg = <<>>
    /\ since_dt = <<>>
    /\ until_dt = <<>>
    /\ since_str = <<>>
    /\ until_str = <<>>

IdleFetches == IdleSearch /\ IdleRepoCommits /\ IdleGather /\ IdleFetchIssues

IdleMain == OutsideMain("")

IdleRest == IdleMain /\ IdleReport /\ IdleNames

-----------------------------------------------------------------------------
(* Calls of the two paginated fetches on endpoints of every bounded shape *)

MaxPages == 3

\* Page sizes served: empty, short, one below full, full.
PageSizes == {0, 37, PerPage - 1, PerPage}

\* The k-th item of a collection served in pages of PerPage.
ItemId(p, i) == (p - 1) * PerPage + i

SearchItem(n) == [number |-> n]

RawCommitNo(n) ==
    RawCommit(Some("c" \o ToString(n)), <<"m">>, None, Some("alice"), None)

\* The pages of the issue search, and of the commit listing, of given sizes.
SearchPages(sizes) ==
    [p \in 1..Len(sizes) |-> [i \in 1..sizes[p] |-> SearchItem(ItemId(p, i))]]

CommitPages(sizes) ==
    [p \in 1..Len(sizes) |-> [i \in 1..sizes[p] |-> RawCommitNo(ItemId(p, i))]]

InitPage ==
    /\ pc \in {"search", "repo_commits"}
    /\ stack = <<"returned">>
    /\ ret = <<>>
    /\ log = <<>>
    /\ REPOS = <<"r1">>
    /\ USER_MAP = <<>>
    /\ USER_MAP_ONLY = FALSE
    /\ \E sizes \in SeqsUpTo(PageSizes, MaxPages) :
          /\ gh_search = [r \in {"r1"} |->
                            [f \in {"created"} |-> SearchPages(sizes)]]
          /\ gh_commits = [r \in {"r1"} |-> CommitPages(sizes)]
    /\ gh_issues = <<>>
    /\ gh_tracked = <<>>
    /\ gh_timeline = <<>>
    /\ gh_pulls = <<>>
    /\ s_field = "created"
    /\ s_items = <<>>
    /\ s_page = 1
    /\ rc_commits = <<>>
    /\ rc_page = 1
    /\ IdleGather
    /\ IdleFetchIssues
    /\ OutsideMain("r1")
    /\ IdleReport
    /\ IdleNames
    /\ IdleDates
    /\ IdleDedupe

NextPage == SearchIssuesRequest \/ RepoCommitsRequest

SpecPage == InitPage /\ [][NextPage]_vars

-----------------------------------------------------------------------------
(* Calls of gather_activity_for_issue on issue #10 of a repository whose   *)
(* sub-issues, timelines, pull requests and commit listing vary            *)

MaxSubs == 1

MaxEvents == 2

MaxSubEvents == 1

\* The events a timeline page holds: cross-references from pull requests
\* #20 and #21, and one from an issue.
Events ==
    {CrossReference("pull_request", 20), CrossReference("pull_request", 21),
     CrossReference("issue", 30)}

\* A timeline: a first page, and possibly a second one.
Timelines(n) ==
    {<<first>> : first \in SeqsUpTo(Events, n)}
        \cup {<<first, <<CrossReference("pull_request", 21)>>>> :
                 first \in SeqsUpTo(Events, n)}

Author == Some("alice")

PRCommit1 == RawCommit(Some("c1"), <<"#", "1", "0">>, None, Author, None)

PRCommit2 == RawCommit(Some("c2"), <<"x">>, None, Author, None)

PRCommit3 == RawCommit(Some("c3"), <<"y">>, None, Author, None)

Mention10 == RawCommit(Some("w10"), <<"#", "1", "0", "1">>, None, Author, None)

Mention11 == RawCommit(Some("w11"), <<"s", "e", "e", " ", "#", "1", "1">>, None, Author, None)

\* A commit whose message mentions #10 right after its first MsgLimit - 1
\* characters.
LateMention10 ==
    RawCommit(Some("w12"), [i \in 1..(MsgLimit - 1) |-> "x"] \o <<"#", "1", "0">>,
              None, Author, None)

\* The commits of pull request #20: on one page, or on two.
Pulls20 == {<<<<PRCommit2, PRCommit1>>>>, <<<<PRCommit2>>, <<PRCommit1>>>>}

\* The commit listing of the window (one short page).
Listings ==
    {<<>>, <<<<Mention11>>>>, <<<<PRCommit1, Mention10, PRCommit3>>>>,
     <<<<LateMention10, PRCommit3>>>>}

IssueDetail(n) == IssueJson(n, Some("t"), Some(Some("alice")))

InitGather ==
    /\ pc = "gather"
    /\ stack = <<"returned">>
    /\ ret = <<>>
    /\ log = <<>>
    /\ REPOS = <<"r1">>
    /\ USER_MAP = <<>>
    /\ USER_MAP_ONLY = FALSE
    /\ gh_search = <<>>
    /\ gh_issues = [r \in {"r1"} |-> [n \in {10, 11} |-> IssueDetail(n)]]
    /\ \E nodes \in SeqsUpTo({TrackedNode(0), TrackedNode(11)}, MaxSubs) :
          /\ gh_tracked = [r \in {"r1"} |-> [n \in {10} |-> nodes]]
          /\ \E t10 \in Timelines(MaxEvents) :
             \E t11 \in IF \E i \in 1..Len(nodes) : nodes[i].number = 11
                        THEN {<<first>> : first \in SeqsUpTo(Events, MaxSubEvents)}
                        ELSE {<<>>} :
                gh_timeline = [r \in {"r1"} |->
                                 [n \in {10, 11} |-> IF n = 10 THEN t10 ELSE t11]]
    /\ \E p20 \in Pulls20 :
          gh_pulls = [r \in {"r1"} |->
                        [n \in {20, 21} |-> IF n = 20 THEN p20 ELSE <<<<PRCommit3>>>>]]
    /\ \E listing \in Listings : gh_commits = [r \in {"r1"} |-> listing]
    /\ IdleSearch
    /\ IdleRepoCommits
    /\ fs_nodes = <<>>
    /\ fs_detailed = <<>>
    /\ issue_json = IssueDetail(10)
    /\ info = <<>>
    /\ g_target = 0
    /\ g_si = 0
    /\ timeline_prs = <<>>
    /\ extends = <<>>
    /\ IdleFetchIssues
    /\ OutsideMain("r1")
    /\ IdleReport
    /\ IdleNames
    /\ IdleDates
    /\ IdleDedupe

NextGather ==
    \/ GatherStart
    \/ FetchSubIssuesQuery
    \/ FetchSubIssueDetail
    \/ FetchSubIssuesReturn
    \/ GatherSubIssues
    \/ FetchTimeline
    \/ GatherTimeline
    \/ GatherPR
    \/ GatherCommitsSearch
    \/ RepoCommitsRequest
    \/ GatherSearched

SpecGather == InitGather /\ [][NextGather]_vars

-----------------------------------------------------------------------------
(* Calls of fetch_issues_in_date_range on searches of every bounded result *)

MaxFound == 2

\* The issue numbers the searches may return.
FoundNumbers == {3, 7, 12}

\* One short page of search items, no number twice.
SearchResults ==
    {<<>>} \cup
    {<<[i \in 1..Len(ns) |-> SearchItem(ns[i])]>> :
        ns \in {q \in SeqsUpTo(FoundNumbers, MaxFound) :
                   q # <<>> /\ \A i, j \in 1..Len(q) : i # j => q[i] # q[j]}}

InitIssues ==
    /\ pc = "fetch_issues"
    /\ stack = <<"returned">>
    /\ ret = <<>>
    /\ log = <<>>
    /\ REPOS = <<"r1">>
    /\ USER_MAP = <<>>
    /\ USER_MAP_ONLY = FALSE
    /\ \E created \in SearchResults : \E updated \in SearchResults :
          gh_search = [r \in {"r1"} |->
                         [f \in {"created", "updated"} |->
                             IF f = "created" THEN created ELSE updated]]
    /\ gh_issues = [r \in {"r1"} |-> [n \in FoundNumbers |-> IssueDetail(n)]]
    /\ gh_tracked = <<>>
    /\ gh_timeline = <<>>
    /\ gh_pulls = <<>>
    /\ gh_commits = <<>>
    /\ IdleSearch
    /\ IdleRepoCommits
    /\ IdleGather
    /\ IdleFetchIssues
    /\ OutsideMain("r1")
    /\ IdleReport
    /\ IdleNames
    /\ IdleDates
    /\ IdleDedupe

NextIssues ==
    \/ FetchIssuesStart
    \/ SearchIssuesRequest
    \/ FetchIssuesCreated
    \/ FetchIssuesUpdated
    \/ FetchIssueDetail
    \/ FetchIssuesReturn

SpecIssues == InitIssues /\ [][NextIssues]_vars

-----------------------------------------------------------------------------
(* Calls of get_full_name_from_username on every bounded identity map *)

MaxMap == 2

MapEntries ==
    {<<"John Doe", <<"jdoe", "j_doe">>>>, <<"John Doe", <<"jdoe">>>>,
     <<"Jane Roe", <<"jroe">>>>, <<"Jane Roe", <<"jdoe", "jroe">>>>,
     <<"J", <<>>>>}

\* A dict has no key twice.
UserMaps ==
    {m \in SeqsUpTo(MapEntries, MaxMap) :
        \A i, j \in 1..Len(m) : i # j => m[i][1] # m[j][1]}

Usernames == {"jdoe", "j_doe", "jroe", "unmapped_user", "John Doe"}

InitNames ==
    /\ pc = "resolve"
    /\ IdleControl
    /\ REPOS = <<>>
    /\ USER_MAP \in UserMaps
    /\ USER_MAP_ONLY = FALSE
    /\ gh_search = <<>>
    /\ gh_issues = <<>>
    /\ gh_tracked = <<>>
    /\ gh_timeline = <<>>
    /\ gh_pulls = <<>>
    /\ gh_commits = <<>>
    /\ IdleFetches
    /\ IdleMain
    /\ IdleReport
    /\ username \in Usernames
    /\ full_name = ""
    /\ IdleDates
    /\ IdleDedupe

NextNames == ResolveName

SpecNames == InitNames /\ [][NextNames]_vars

-----------------------------------------------------------------------------
(* Calls of generate_quarto_report_per_author on every bounded collection  *)
(* of ActivityInfo and repository commits                                  *)

MaxInfos == 2

AliceCommit == CommitObj(Some("a1"), <<"a">>, None, Some("al"), None)

BobCommit == CommitObj(Some("b1"), <<"b">>, None, Some("bob"), None)

NobodysCommit == CommitObj(Some("u1"), <<"u">>, None, None, None)

EmptyMessageCommit == CommitObj(Some("e1"), <<>>, None, Some("bob"), None)

\* The authors of issues: two logins, a null login, a null user.
IssueUsers == {Some(Some("alice")), Some(Some("bob")), Some(None), None}

IssueCommitLists == {<<>>, <<AliceCommit>>, <<BobCommit>>, <<AliceCommit, BobCommit>>}

RepoCommitLists ==
    {<<>>, <<BobCommit>>, <<NobodysCommit, AliceCommit>>, <<EmptyMessageCommit>>}

ActivityInfo(issue, sub_issues, pr_numbers, commits) ==
    [issue |-> issue, sub_issues |-> sub_issues, pr_numbers |-> pr_numbers,
     commits |-> commits]

InfoShapes == IssueUsers \X IssueCommitLists

InitReport ==
    /\ pc = "report"
    /\ IdleControl
    /\ REPOS = <<"r1">>
    /\ USER_MAP \in {<<>>, <<<<"Alice", <<"alice", "al">>>>>>}
    /\ USER_MAP_ONLY \in BOOLEAN
    /\ gh_search = <<>>
    /\ gh_issues = <<>>
    /\ gh_tracked = <<>>
    /\ gh_timeline = <<>>
    /\ gh_pulls = <<>>
    /\ gh_commits = <<>>
    /\ IdleFetches
    /\ repo = ""
    /\ repo_idx = 2
    /\ issues = <<>>
    /\ issue_idx = 0
    /\ \E shapes \in SeqsUpTo(InfoShapes, MaxInfos) :
          all_issues_info =
             [i \in 1..Len(shapes) |->
                 ActivityInfo(IssueJson(i, Some("t"), shapes[i][1]), <<>>, {},
                              shapes[i][2])]
    /\ all_repo_commits \in RepoCommitLists
    /\ IdleReport
    /\ IdleNames
    /\ IdleDates
    /\ IdleDedupe

NextReport == GenerateReport

SpecReport == InitReport /\ [][NextReport]_vars

-----------------------------------------------------------------------------
(* Runs of main over one or two repositories *)

\* What GitHub holds of a repository: r1 has issues #10 and #12, r2 none.
RunSearch(r, updated) ==
    [f \in {"created", "updated"} |->
        IF r # "r1" THEN <<>>
        ELSE IF f = "created" THEN <<<<SearchItem(10)>>>> ELSE updated]

InitRun ==
    /\ pc = "main"
    /\ IdleControl
    /\ REPOS \in {<<"r1">>, <<"r1", "r2">>}
    /\ USER_MAP = <<<<"Alice", <<"alice">>>>>>
    /\ USER_MAP_ONLY \in BOOLEAN
    /\ \E updated \in {<<>>, <<<<SearchItem(12), SearchItem(10)>>>>} :
          gh_search = [r \in {"r1", "r2"} |-> RunSearch(r, updated)]
    /\ gh_issues = [r \in {"r1", "r2"} |-> [n \in {10, 11, 12} |-> IssueDetail(n)]]
    /\ \E nodes \in {<<>>, <<TrackedNode(11)>>} :
          gh_tracked = [r \in {"r1", "r2"} |->
                          [n \in {10, 12} |-> IF n = 10 THEN nodes ELSE <<>>]]
    /\ \E t10 \in {<<<<>>>>, <<<<CrossReference("pull_request", 20)>>>>} :
          gh_timeline = [r \in {"r1", "r2"} |->
                           [n \in {10, 11, 12} |->
                               IF n = 10 THEN t10
                               ELSE IF n = 11
                               THEN <<<<CrossReference("pull_request", 20)>>>>
                               ELSE <<<<>>>>]]
    /\ gh_pulls = [r \in {"r1", "r2"} |-> [n \in {20} |-> <<<<PRCommit2, PRCommit1>>>>]]
    /\ \E listing \in Listings :
          gh_commits = [r \in {"r1", "r2"} |->
                          IF r = "r1" THEN listing ELSE <<<<PRCommit3>>>>]
    /\ IdleFetches
    /\ IdleRest
    /\ IdleDates
    /\ IdleDedupe

NextRun ==
    \/ MainStart
    \/ MainRepo
    \/ FetchIssuesStart
    \/ SearchIssuesRequest
    \/ FetchIssuesCreated
    \/ FetchIssuesUpdated
    \/ FetchIssueDetail
    \/ FetchIssuesReturn
    \/ MainIssues
    \/ MainIssue
    \/ GatherStart
    \/ FetchSubIssuesQuery
    \/ FetchSubIssueDetail
    \/ FetchSubIssuesReturn
    \/ GatherSubIssues
    \/ FetchTimeline
    \/ GatherTimeline
    \/ GatherPR
    \/ GatherCommitsSearch
    \/ RepoCommitsRequest
    \/ GatherSearched
    \/ MainInfo
    \/ MainHarvest
    \/ GenerateReport

SpecRun == InitRun /\ [][NextRun]_vars

-----------------------------------------------------------------------------
(* The dates given on the command line *)

\* Bare dates.
BareDates ==
    {<<"2", "0", "2", "3", "-", "0", "6", "-", "0", "1">>,
     <<"2", "0", "2", "3", "-", "0", "6", "-", "0", "2">>,
     <<"2", "0", "2", "4", "-", "0", "2", "-", "2", "9">>,
     <<"2", "0", "2", "3", "-", "1", "2", "-", "3", "1">>}

\* Other texts parse_date_input accepts: a bare date between blanks, and
\* ISO timestamps in UTC, with an offset, and naive.
Timestamps ==
    {<<" ", "2", "0", "2", "3", "-", "0", "6", "-", "0", "1", " ">>,
     <<"2", "0", "2", "3", "-", "0", "6", "-", "0", "1", "T", "1", "2", ":", "0", "0", ":", "0", "0", "Z">>,
     <<"2", "0", "2", "3", "-", "0", "6", "-", "0", "1", "T", "2", "3", ":", "3", "0", ":", "0", "0", "-", "0", "5", ":", "0", "0">>,
     <<"2", "0", "2", "3", "-", "0", "6", "-", "0", "1", "T", "1", "2", ":", "0", "0", ":", "0", "0">>,
     <<"2", "0", "2", "3", "-", "0", "6", "-", "0", "1", "T", "0", "1", ":", "0", "0", ":", "0", "0", "+", "0", "0", ":", "0", "0">>}

\* Texts that are no date: a month 13, a 30th of February, slashes, day
\* first, a word, a blank, an hour 25, and one-digit fields.
MalformedDates ==
    {<<"2", "0", "2", "3", "-", "1", "3", "-", "0", "1">>,
     <<"2", "0", "2", "3", "-", "0", "2", "-", "3", "0">>,
     <<"2", "0", "2", "3", "/", "0", "6", "/", "0", "1">>,
     <<"0", "1", "-", "0", "6", "-", "2", "0", "2", "3">>,
     <<"y", "e", "s", "t", "e", "r", "d", "a", "y">>,
     <<" ">>,
     <<"2", "0", "2", "3", "-", "0", "6", "-", "0", "1", "T", "2", "5", ":", "0", "0", ":", "0", "0", "Z">>,
     <<"2", "0", "2", "3", "-", "6", "-", "1">>}

\* What --since or --until can be: not given, given empty, or a text.
DateArgs(texts) == {None, Some(<<>>)} \cup {Some(t) : t \in texts}

\* parse_date_input on both options, and to_github_time_string on the
\* window they give.
InitDates ==
    /\ pc = "parse_since"
    /\ IdleControl
    /\ NoGitHub
    /\ IdleFetches
    /\ IdleRest
    /\ since_arg \in DateArgs(BareDates \cup Timestamps \cup MalformedDates)
    /\ until_arg \in DateArgs(BareDates \cup Timestamps \cup MalformedDates)
    /\ since_dt = <<>>
    /\ until_dt = <<>>
    /\ since_str = <<>>
    /\ until_str = <<>>
    /\ IdleDedupe

NextDates ==
    \/ ParseSince
    \/ ParseUntil
    \/ FormatWindow

SpecDates == InitDates /\ [][NextDates]_vars

-----------------------------------------------------------------------------
(* Runs of the program from the command line on *)

CliWellFormed == {<<"2", "0", "2", "3", "-", "0", "6", "-", "0", "1">>, <<"2", "0", "2", "3", "-", "0", "6", "-", "0", "2">>}

CliMalformed == {<<"2", "0", "2", "3", "-", "1", "3", "-", "0", "1">>, <<"y", "e", "s", "t", "e", "r", "d", "a", "y">>}

CliDates == CliWellFormed \cup CliMalformed

InitCli ==
    /\ pc = "parse_since"
    /\ IdleControl
    /\ REPOS \in {<<"r1">>, <<"r1", "r2">>}
    /\ USER_MAP = <<<<"Alice", <<"alice">>>>>>
    /\ USER_MAP_ONLY = FALSE
    /\ gh_search = [r \in {"r1", "r2"} |->
                      RunSearch(r, <<<<SearchItem(12), SearchItem(10)>>>>)]
    /\ gh_issues = [r \in {"r1", "r2"} |-> [n \in {10, 11, 12} |-> IssueDetail(n)]]
    /\ \E nodes \in {<<>>, <<TrackedNode(11)>>} :
          gh_tracked = [r \in {"r1", "r2"} |->
                          [n \in {10, 12} |-> IF n = 10 THEN nodes ELSE <<>>]]
    /\ \E t10 \in {<<<<>>>>, <<<<CrossReference("pull_request", 20)>>>>} :
          gh_timeline = [r \in {"r1", "r2"} |->
                           [n \in {10, 11, 12} |-> IF n = 10 THEN t10 ELSE <<<<>>>>]]
    /\ gh_pulls = [r \in {"r1", "r2"} |-> [n \in {20} |-> <<<<PRCommit2, PRCommit1>>>>]]
    /\ gh_commits = [r \in {"r1", "r2"} |->
                       IF r = "r1" THEN <<<<Mention11>>>> ELSE <<<<PRCommit3>>>>]
    /\ IdleFetches
    /\ IdleRest
    /\ since_arg \in DateArgs(CliDates)
    /\ until_arg \in DateArgs(CliDates)
    /\ since_dt = <<>>
    /\ until_dt = <<>>
    /\ since_str = <<>>
    /\ until_str = <<>>
    /\ IdleDedupe

NextCli ==
    \/ ParseSince
    \/ ParseUntil
    \/ MainStart
    \/ MainRepo
    \/ FetchIssuesStart
    \/ SearchIssuesRequest
    \/ FetchIssuesCreated
    \/ FetchIssuesUpdated
    \/ FetchIssueDetail
    \/ FetchIssuesReturn
    \/ MainIssues
    \/ MainIssue
    \/ GatherStart
    \/ FetchSubIssuesQuery
    \/ FetchSubIssueDetail
    \/ FetchSubIssuesReturn
    \/ GatherSubIssues
    \/ FetchTimeline
    \/ GatherTimeline
    \/ GatherPR
    \/ GatherCommitsSearch
    \/ RepoCommitsRequest
    \/ GatherSearched
    \/ MainInfo
    \/ MainHarvest
    \/ GenerateReport

SpecCli == InitCli /\ [][NextCli]_vars

-----------------------------------------------------------------------------
(* Calls of dedupe_commits on every bounded commit list *)

DedupeShas == {None, Some(""), Some("a1"), Some("b2")}

DedupeMsgs == {<<>>, <<"#", "1">>}

DedupeCommits ==
    {CommitObj(s, m, None, Some("alice"), None) : s \in DedupeShas, m \in DedupeMsgs}

InitDedupe ==
    /\ pc = "dedupe"
    /\ IdleControl
    /\ NoGitHub
    /\ IdleFetches
    /\ IdleRest
    /\ IdleDates
    /\ commits_list \in SeqsUpTo(DedupeCommits, MaxCommits)
    /\ deduped = <<>>
    /\ rededuped = <<>>

CallDedupe ==
    /\ pc = "dedupe"
    /\ deduped' = dedupe_commits(commits_list)
    /\ pc' = "deduped"
    /\ UNCHANGED <<stack, ret, log, envVars, dateVars, fiVars, mainVars, aggVars, nameVars, searchVars, rcVars, subVars, gatherVars, commits_list, rededuped>>

CallDedupeAgain ==
    /\ pc = "deduped"
    /\ rededuped' = dedupe_commits(deduped)
    /\ pc' = "rededuped"
    /\ UNCHANGED <<stack, ret, log, envVars, dateVars, fiVars, mainVars, aggVars, nameVars, searchVars, rcVars, subVars, gatherVars, commits_list, deduped>>

NextDedupe == CallDedupe \/ CallDedupeAgain

SpecDedupe == InitDedupe /\ [][NextDedupe]_vars

-----------------------------------------------------------------------------
(* Claims on dedupe_commits *)

\* The positions of `list` that hold the first occurrence of their identity
\* key, where the key is stated from the record's fields alone: two records
\* with a non-empty sha share a key when the shas are equal, two records
\* without one when they are equal field by field, and a record with a sha
\* never shares a key with one without.
SameIdentity(a, b) ==
    IF Truthy(a.sha) /\ Truthy(b.sha) THEN a.sha = b.sha
    ELSE IF ~Truthy(a.sha) /\ ~Truthy(b.sha) THEN a = b
    ELSE FALSE

FirstOccurrences(list) ==
    {i \in 1..Len(list) : \A j \in 1..(i-1) : ~SameIdentity(list[j], list[i])}

RECURSIVE Pick(_, _, _)
\* The subsequence of `list` at the positions of I, in order, from i on.
Pick(list, I, i) ==
    IF i > Len(list) THEN <<>>
    ELSE IF i \in I THEN <<list[i]>> \o Pick(list, I, i + 1)
    ELSE Pick(list, I, i + 1)

\* C1: dedupe_commits is idempotent and order-preserving: its result is the
\* subsequence of the argument made of the first occurrence of each identity
\* key, in the argument's order, and deduplicating the result again returns
\* the result unchanged.
C1_DedupeIdempotentOrdered ==
    /\ pc \in {"deduped", "rededuped"}
          => deduped = Pick(commits_list, FirstOccurrences(commits_list), 1)
    /\ pc = "rededuped" => rededuped = deduped

\* C1 witness: a list with a repeated key (sha-carrying and sha-less) whose
\* result was deduplicated a second time.
C1_Witness ==
    /\ pc = "rededuped"
    /\ Len(deduped) >= 2
    /\ Len(deduped) < Len(commits_list)
    /\ \E i \in 1..Len(commits_list) : ~Truthy(commits_list[i].sha)

\* C2: in the result of dedupe_commits no two records share an identity
\* key: every non-empty sha occurs at most once, and two sha-less records
\* of the argument are both kept exactly when they differ in some field
\* (equal ones are kept once).
C2_DedupeUniqueKeys ==
    pc \in {"deduped", "rededuped"} =>
        /\ \A i, j \in 1..Len(deduped) :
              i < j => ~SameIdentity(deduped[i], deduped[j])
        /\ \A i, j \in 1..Len(deduped) :
              (i < j /\ Truthy(deduped[i].sha)) => deduped[i].sha # deduped[j].sha
        /\ \A i \in 1..Len(commits_list) :
              ~Truthy(commits_list[i].sha) =>
                 Cardinality({k \in 1..Len(deduped) : deduped[k] = commits_list[i]}) = 1

\* C2 witness: two sha-less records that differ in a field are both kept,
\* a sha-less record given twice is kept once, and a sha is given twice.
C2_Witness ==
    /\ pc = "deduped"
    /\ \E i, j \in 1..Len(deduped) :
          /\ i < j
          /\ ~Truthy(deduped[i].sha) /\ ~Truthy(deduped[j].sha)
    /\ \E i, j \in 1..Len(commits_list) :
          i < j /\ commits_list[i] = commits_list[j]

-----------------------------------------------------------------------------
(* Claims on the paginated fetches *)

\* The endpoint the call in progress reads, and what a returned item is.
PagedEndpoint ==
    IF log # <<>> /\ log[1].kind = "repo_commits"
    THEN [p \in 1..Len(gh_commits[repo]) |-> NormalizeAll(gh_commits[repo][p])]
    ELSE gh_search[repo]["created"]

\* The number of the first page that is short or empty (the page after the
\* last one is empty).
FirstShortPage(pages) ==
    CHOOSE k \in 1..(Len(pages) + 1) :
        /\ k > Len(pages) \/ Len(pages[k]) < 100
        /\ \A j \in 1..(k - 1) : Len(pages[j]) >= 100

RECURSIVE Concat(_, _)
\* The concatenation of the first k pages.
Concat(pages, k) ==
    IF k = 0 THEN <<>>
    ELSE Concat(pages, k - 1) \o (IF k <= Len(pages) THEN pages[k] ELSE <<>>)

\* C3: a paginated fetch requests pages 1, 2, 3, ... in order, never a page
\* past the first short or empty one, and returns after requesting that page
\* with the concatenation of all pages up to it; pages of sizes
\* [100, 100, 37] give 237 items after 3 requests.
C3_PaginationStopsAtShortPage ==
    LET pages == PagedEndpoint
        stop == FirstShortPage(pages)
    IN  /\ \A i \in 1..Len(log) : log[i].page = i
        /\ Len(log) <= stop
        /\ pc = "returned" =>
              /\ Len(log) = stop
              /\ ret = Concat(pages, stop)
              /\ (Len(pages) = 3 /\ Len(pages[1]) = 100 /\ Len(pages[2]) = 100
                    /\ Len(pages[3]) = 37)
                     => (Len(ret) = 237 /\ Len(log) = 3)

\* C3 witness: the commit listing served pages of 100, 100 and 37 commits
\* and the fetch returned.
C3_Witness ==
    /\ pc = "returned"
    /\ log[1].kind = "repo_commits"
    /\ Len(gh_commits[repo]) = 3
    /\ Len(gh_commits[repo][1]) = 100
    /\ Len(gh_commits[repo][2]) = 100
    /\ Len(gh_commits[repo][3]) = 37
    /\ Len(ret) = 237
    /\ Len(log) = 3

-----------------------------------------------------------------------------
(* Claims on gather_activity_for_issue *)

\* Everything a paginated collection holds.
WholeCollection(pages) == Concat(pages, Len(pages))

\* The numbers whose timeline the call walks: the issue, then its tracked
\* sub-issues that have a number.
RECURSIVE NumberedNodes(_)
NumberedNodes(nodes) ==
    IF nodes = <<>> THEN <<>>
    ELSE (IF Head(nodes).number # 0 THEN <<Head(nodes).number>> ELSE <<>>)
         \o NumberedNodes(Tail(nodes))

Targets == <<issue_json.number>> \o NumberedNodes(gh_tracked[repo][issue_json.number])

\* The requests for the commits of pull request n, and the extends with them.
PRRequests(n) == {i \in 1..Len(log) : log[i].kind = "pr_commits" /\ log[i].num = n}

PRExtends(n) == {i \in 1..Len(extends) : extends[i].src = "pr" /\ extends[i].num = n}

RECURSIVE ExtendedCommits(_)
ExtendedCommits(exts) ==
    IF exts = <<>> THEN <<>> ELSE Head(exts).commits \o ExtendedCommits(Tail(exts))

\* C4 (as claimed): the timeline fetch and the pull-request commits fetch
\* return every item the endpoint holds, not only its first page.
C4_EveryCollectionFetchedWhole ==
    /\ pc = "gather_timeline" =>
          ret = PRsOfEvents(WholeCollection(gh_timeline[repo][g_target]))
    /\ \A i \in 1..Len(extends) :
          extends[i].src = "pr" =>
             extends[i].commits
                = NormalizeAll(WholeCollection(gh_pulls[repo][extends[i].num]))

\* The pull request numbers the timeline responses of the call hold.
Discovered ==
    UNION {Range(PRsOfEvents(UnpagedResponse(gh_timeline[repo][Targets[k]]))) :
              k \in 1..Len(Targets)}

\* C5: within one call of gather_activity_for_issue the commits of a pull
\* request number are requested at most once and extend the commit list at
\* most once; when the call returns, every number discovered in a timeline
\* was requested once and its commits appended once, and the commit list is
\* made of the appended blocks alone.
C5_PRCommitsFetchedOnce ==
    /\ pc # "gather" =>
          \A n \in {20, 21} :
             /\ Cardinality(PRRequests(n)) <= 1
             /\ Cardinality(PRExtends(n)) <= 1
             /\ PRExtends(n) # {} => PRRequests(n) # {}
    /\ pc = "returned" =>
          /\ ret.commits = ExtendedCommits(extends)
          /\ ret.pr_numbers = Discovered
          /\ \A n \in Discovered :
                /\ Cardinality(PRRequests(n)) = 1
                /\ Cardinality(PRExtends(n)) = 1

\* C5 witness: pull request #20 stands twice in the timeline of the issue
\* and again in the timeline of its sub-issue, and the call returned.
C5_Witness ==
    /\ pc = "returned"
    /\ Count(PRsOfEvents(UnpagedResponse(gh_timeline[repo][10])), 20) = 2
    /\ Len(Targets) = 2
    /\ 20 \in Range(PRsOfEvents(UnpagedResponse(gh_timeline[repo][11])))
    /\ 20 \in ret.pr_numbers

\* The pull requests cross-referencing the issue or one of its sub-issues.
CrossReferencing ==
    UNION {Range(PRsOfEvents(WholeCollection(gh_timeline[repo][Targets[k]]))) :
              k \in 1..Len(Targets)}

\* The commits of the window whose message mentions #n.
Mentioning(n) ==
    FilterMentions(NormalizeAll(WholeCollection(gh_commits[repo])), n)

\* How often commit c is owed to the result: once per cross-referencing pull
\* request that holds it, once per target that it mentions.
Owed(c) ==
    LET PRSum[S \in SUBSET CrossReferencing] ==
            IF S = {} THEN 0
            ELSE LET n == CHOOSE m \in S : TRUE
                 IN  Count(NormalizeAll(WholeCollection(gh_pulls[repo][n])), c)
                        + PRSum[S \ {n}]
        RECURSIVE MentionSum(_)
        MentionSum(k) ==
            IF k = 0 THEN 0
            ELSE Count(Mentioning(Targets[k]), c) + MentionSum(k - 1)
    IN  PRSum[CrossReferencing] + MentionSum(Len(Targets))

AllOwed ==
    UNION ({Range(NormalizeAll(WholeCollection(gh_pulls[repo][n]))) : n \in CrossReferencing}
           \cup {Range(Mentioning(Targets[k])) : k \in 1..Len(Targets)})

\* C6 (as claimed): the returned ActivityInfo has as pr_numbers exactly the
\* pull requests cross-referencing the issue or a sub-issue, as sub_issues
\* the record of every tracked sub-issue, and as commits exactly the commits
\* of those pull requests plus the commits mentioning the issue or a
\* sub-issue.
C6_ActivityComplete ==
    pc = "returned" =>
        /\ ret.pr_numbers = CrossReferencing
        /\ ret.sub_issues = [k \in 1..(Len(Targets) - 1) |-> gh_issues[repo][Targets[k + 1]]]
        /\ Range(ret.commits) = AllOwed
        /\ \A c \in AllOwed : Count(ret.commits, c) = Owed(c)

\* The scenario of the spec: issue #10 with sub-issue #11, pull request #20
\* with two commits on #10, one commit of the window mentioning #11.
C6_Scenario ==
    ( /\ pc = "returned"
      /\ gh_tracked[repo][10] = <<TrackedNode(11)>>
      /\ gh_timeline[repo][10] = <<<<CrossReference("pull_request", 20)>>>>
      /\ gh_timeline[repo][11] = <<<<>>>>
      /\ gh_pulls[repo][20] = <<<<PRCommit2, PRCommit1>>>>
      /\ gh_commits[repo] = <<<<Mention11>>>> )
    => /\ ret.pr_numbers = {20}
       /\ ret.commits = NormalizeAll(<<PRCommit2, PRCommit1, Mention11>>)
       /\ ret.sub_issues = <<IssueDetail(11)>>

-----------------------------------------------------------------------------
(* Claims on fetch_issues_in_date_range *)

\* The issue numbers of the requests for an issue's detail, in request order,
\* that succeeded.
RECURSIVE DetailRequests(_)
DetailRequests(l) ==
    IF l = <<>> THEN <<>>
    ELSE (IF Head(l).kind = "issue" THEN <<Head(l).num>> ELSE <<>>)
         \o DetailRequests(Tail(l))

\* The numbers either search holds.
Found ==
    {item.number : item \in Range(WholeCollection(gh_search[repo]["created"]))
                              \cup Range(WholeCollection(gh_search[repo]["updated"]))}

\* C7: fetch_issues_in_date_range requests the detail of issues in strictly
\* ascending number order (so none twice) and only of numbers a search
\* holds; when it returns, every number of either search was requested
\* exactly once and the details are returned in ascending number order.
C7_IssuesFetchedOnceAscending ==
    LET requested == DetailRequests(log)
    IN  /\ \A i, j \in 1..Len(requested) : i < j => requested[i] < requested[j]
        /\ Range(requested) \subseteq Found
        /\ pc = "returned" =>
              /\ Range(requested) = Found
              /\ Len(requested) = Cardinality(Found)
              /\ Len(ret) = Len(requested)
              /\ \A i \in 1..Len(ret) : ret[i] = gh_issues[repo][requested[i]]

\* C7 witness: issue #12 is in both searches, the `created` search returned
\* it before a lower number, and the call returned.
C7_Witness ==
    /\ pc = "returned"
    /\ LET created == WholeCollection(gh_search[repo]["created"])
           updated == WholeCollection(gh_search[repo]["updated"])
       IN  /\ Len(created) = 2 /\ created[1].number = 12 /\ created[2].number = 7
           /\ SearchItem(12) \in Range(updated)
    /\ Len(ret) >= 2

-----------------------------------------------------------------------------
(* Claims on the author aggregation and the identity resolution *)

\* The canonical author of an issue or commit the aggregation does not
\* raise on.
IssuesOf(author) ==
    SelectSeq(all_issues_info, LAMBDA i : get_author_name(i.issue) = author)

RECURSIVE OwnCommitsOfIssues(_, _)
\* The commits attached to the issues of `author` that are the author's own.
OwnCommitsOfIssues(infos, author) ==
    IF infos = <<>> THEN <<>>
    ELSE (IF get_author_name(Head(infos).issue) = author
          THEN SelectSeq(Head(infos).commits, LAMBDA c : get_author_name(c) = author)
          ELSE <<>>)
         \o OwnCommitsOfIssues(Tail(infos), author)

RepoCommitsOf(author) ==
    SelectSeq(all_repo_commits, LAMBDA c : get_author_name(c) = author)

AggregationDone == pc \in {"done", "raised"} /\ author_data # <<>>

\* C8: once the aggregation has built author_data, there is one bucket per
\* canonical author of an issue or of a repository-wide commit and no other;
\* the bucket of an author holds exactly the ActivityInfo whose issue is the
\* author's, and as commits those attached to the author's issues that are
\* the author's own, followed by every repository-wide commit of the author.
C8_AuthorBuckets ==
    AggregationDone =>
        /\ \A i, j \in 1..Len(author_data) :
              i # j => author_data[i].author # author_data[j].author
        /\ Authors(author_data)
              = {get_author_name(i.issue) : i \in Range(all_issues_info)}
                   \cup {get_author_name(c) : c \in Range(all_repo_commits)}
        /\ \A k \in 1..Len(author_data) :
              LET b == author_data[k]
              IN  /\ b.issues = IssuesOf(b.author)
                  /\ b.commits = OwnCommitsOfIssues(all_issues_info, b.author)
                                    \o RepoCommitsOf(b.author)

\* C8 witness: two issues of Alice, one carrying a commit of Alice and one a
\* commit of Bob, and no repository-wide commit: Alice's bucket holds both
\* issues and her commit alone, and Bob has no bucket.
C8_Witness ==
    /\ pc = "done"
    /\ Len(all_issues_info) = 2
    /\ all_issues_info[1].commits = <<AliceCommit>>
    /\ all_issues_info[2].commits = <<BobCommit>>
    /\ all_repo_commits = <<>>
    /\ author_data = <<Bucket("Alice", all_issues_info, <<AliceCommit>>)>>

\* C9: get_full_name_from_username returns a full name of USER_MAP whose
\* usernames contain the raw value when there is one, and the raw value
\* itself when there is none; with {"John Doe": ["jdoe", "j_doe"]}, "jdoe"
\* gives "John Doe" and "unmapped_user" gives "unmapped_user".
C9_IdentityResolution ==
    pc = "resolved" =>
        LET holding == {i \in 1..Len(USER_MAP) :
                           \E k \in 1..Len(USER_MAP[i][2]) : USER_MAP[i][2][k] = username}
        IN  /\ holding # {} => \E i \in holding : full_name = USER_MAP[i][1]
            /\ holding = {} => full_name = username
            /\ USER_MAP = <<<<"John Doe", <<"jdoe", "j_doe">>>>>> =>
                  /\ username = "jdoe" => full_name = "John Doe"
                  /\ username = "unmapped_user" => full_name = "unmapped_user"

\* C9 witness: with {"John Doe": ["jdoe", "j_doe"]} the second username was
\* resolved.
C9_Witness ==
    /\ pc = "resolved"
    /\ USER_MAP = <<<<"John Doe", <<"jdoe", "j_doe">>>>>>
    /\ username = "j_doe"
    /\ full_name = "John Doe"

-----------------------------------------------------------------------------
(* Claims on a whole run *)

\* The requests of the log that GitHub answered with an error status.
FailedRequests == {i \in 1..Len(log) : log[i].status \notin 200..299}

\* C10: once a request of a run has been answered with an error status, it
\* is the last request of the run (it is not sent again and no other request
\* follows it), the run has ended on the exception, and no report has been
\* generated.
C10_FailFast ==
    FailedRequests # {} =>
        /\ FailedRequests = {Len(log)}
        /\ pc = "raised"
        /\ author_data = <<>>
        /\ reports = <<>>

\* C10 witness: in a run over two repositories, the commit listing of the
\* second repository fails after the first repository's issue, sub-issue
\* query, timeline and pull request were fetched.
C10_Witness ==
    /\ pc = "raised"
    /\ Len(log) > 1
    /\ log[Len(log)].status = 403
    /\ log[Len(log)].kind = "repo_commits"
    /\ repo = "r2"
    /\ {log[i].kind : i \in 1..Len(log)}
          = {"search_created", "search_updated", "issue", "graphql", "timeline",
             "pr_commits", "repo_commits"}
    /\ all_issues_info # <<>>

-----------------------------------------------------------------------------
(* Claims on the reports *)

\* The full names of the identity map.
MappedNames == {USER_MAP[i][1] : i \in 1..Len(USER_MAP)}

ReportedAuthors == {reports[i].author : i \in 1..Len(reports)}

\* C13: with USER_MAP_ONLY set, no report is ever generated for an author
\* that is not a full name of the identity map, and a completed generation
\* has reported exactly the bucket authors that are; with the flag not set,
\* a completed generation has reported every author with a bucket.
C13_MapOnlyFilter ==
    /\ USER_MAP_ONLY => ReportedAuthors \subseteq MappedNames
    /\ ReportedAuthors \subseteq Authors(author_data)
    /\ pc = "done" =>
          ReportedAuthors = IF USER_MAP_ONLY
                            THEN Authors(author_data) \cap MappedNames
                            ELSE Authors(author_data)

\* C13 witness: with the flag set, Alice (in the map) and bob (not in it)
\* both have a bucket and only Alice has a report.
C13_Witness ==
    /\ pc = "done"
    /\ USER_MAP_ONLY
    /\ Authors(author_data) = {"Alice", "bob"}
    /\ ReportedAuthors = {"Alice"}

-----------------------------------------------------------------------------
(* Claims on records without an author *)

\* An issue whose user is null, or whose login is null or empty.
IssueWithoutAuthor(issue) ==
    issue.user = None \/ issue.user[1] = None \/ issue.user[1] = Some("")

\* A commit whose author is null or empty.
CommitWithoutAuthor(commit) == commit.author = None \/ commit.author = Some("")

\* The records filed under an author, << >> when the author has no bucket.
FiledUnder(author, field) ==
    IF author \in Authors(author_data)
    THEN IF field = "issues"
         THEN author_data[IndexOfAuthor(author_data, author)].issues
         ELSE author_data[IndexOfAuthor(author_data, author)].commits
    ELSE <<>>

\* C17: once generate_quarto_report_per_author is past the aggregation, every
\* ActivityInfo whose issue has no author identity and every repository-wide
\* commit that has none is filed under "unknown": resolving the author of
\* such a record never ends the run.
C17_AbsentAuthorIsUnknown ==
    pc \in {"done", "raised"} =>
        /\ \A i \in 1..Len(all_issues_info) :
              IssueWithoutAuthor(all_issues_info[i].issue)
                 => all_issues_info[i] \in Range(FiledUnder("unknown", "issues"))
        /\ \A k \in 1..Len(all_repo_commits) :
              CommitWithoutAuthor(all_repo_commits[k])
                 => all_repo_commits[k] \in Range(FiledUnder("unknown", "commits"))

\* The cases of C17 the code handles: a null login and a null commit author
\* were filed under "unknown".
C17_HandledCases ==
    /\ pc = "done"
    /\ \E i \in 1..Len(all_issues_info) : all_issues_info[i].issue.user = Some(None)
    /\ NobodysCommit \in Range(all_repo_commits)
    /\ NobodysCommit \in Range(FiledUnder("unknown", "commits"))
    /\ Len(FiledUnder("unknown", "issues")) > 0

-----------------------------------------------------------------------------
(* Claims on the message search and on issues without links *)

RECURSIVE MentionedIn(_, _)
\* The commits of a listing whose message, as GitHub holds it, contains
\* "#n", in listing order, as the records the fetch builds of them.
MentionedIn(listing, n) ==
    IF listing = <<>> THEN <<>>
    ELSE (IF Contains(Head(listing).commit.message, <<"#">> \o Digits(n))
          THEN <<NormalizeCommit(Head(listing))>> ELSE <<>>)
         \o MentionedIn(Tail(listing), n)

\* Issue #10 has no sub-issue and no pull request cross-references it.
NoLinks ==
    /\ gh_tracked[repo][issue_json.number] = <<>>
    /\ CrossReferencing = {}

\* C15 (as claimed): an issue with no sub-issue and no linked pull request
\* yields an ActivityInfo whose sub_issues, pr_numbers and commits are all
\* empty.
C15_OnlyIssuePopulated ==
    (pc = "returned" /\ NoLinks) =>
        /\ ret.issue = issue_json
        /\ ret.sub_issues = <<>>
        /\ ret.pr_numbers = {}
        /\ ret.commits = <<>>

\* C15 (amended): an issue with no sub-issue and no linked pull request
\* yields an ActivityInfo whose sub_issues and pr_numbers are empty and whose
\* commits are only commits of the window with "#n" in their message; the
\* commits are empty when no message of the window contains "#n".
C15_OnlyMentionsPopulated ==
    (pc = "returned" /\ NoLinks) =>
        /\ ret.issue = issue_json
        /\ ret.sub_issues = <<>>
        /\ ret.pr_numbers = {}
        /\ \A k \in 1..Len(ret.commits) :
              /\ Contains(ret.commits[k].msg, <<"#">> \o Digits(issue_json.number))
              /\ ret.commits[k] \in Range(NormalizeAll(WholeCollection(gh_commits[repo])))
        /\ MentionedIn(WholeCollection(gh_commits[repo]), issue_json.number) = <<>>
              => ret.commits = <<>>

\* C15 witness: the issue has no sub-issue and no linked pull request, and
\* the returned commits are the two of the window that mention it.
C15_Witness ==
    /\ pc = "returned"
    /\ NoLinks
    /\ Len(ret.commits) = 2

\* C16 (as claimed): each message-search step for number n appends exactly
\* the commits of the window whose message contains "#n", in listing order.
C16_SearchAppendsMentions ==
    \A i \in 1..Len(extends) :
        extends[i].src = "search" =>
            extends[i].commits
               = MentionedIn(WholeCollection(gh_commits[repo]), extends[i].num)

-----------------------------------------------------------------------------
(* Claims on the order of the stages of a run *)

\* The issue numbers the two searches of repository r find.
FoundIn(r) ==
    UNION {{WholeCollection(gh_search[r][f])[i].number :
               i \in 1..Len(WholeCollection(gh_search[r][f]))} :
              f \in {"created", "updated"}}

RECURSIVE IssuesOfRepos(_)
\* The issue numbers of the first k repositories, repository after
\* repository, ascending within each.
IssuesOfRepos(k) ==
    IF k = 0 THEN <<>> ELSE IssuesOfRepos(k - 1) \o Sorted(FoundIn(REPOS[k]))

RECURSIVE CommitsOfRepos(_)
\* The commit listings of the first k repositories, one after another.
CommitsOfRepos(k) ==
    IF k = 0 THEN <<>>
    ELSE CommitsOfRepos(k - 1) \o NormalizeAll(WholeCollection(gh_commits[REPOS[k]]))

Pending(label) == pc = label \/ label \in Range(stack)

\* main is collecting the issues of `repo`, resolving them, or harvesting
\* its commits.
Collecting == Pending("main_issues")

Resolving == Pending("main_info") \/ pc = "main_issue"

Harvesting == Pending("main_harvest")

ResolvedNumbers == [i \in 1..Len(all_issues_info) |-> all_issues_info[i].issue.number]

\* The stages of a run follow one another: repositories in the configured
\* order, for each the whole issue collection, then its issues one by one
\* in ascending number, then its commit harvest, and the report after the
\* last repository.
StagesInOrder ==
    /\ (Collecting \/ Resolving \/ Harvesting) =>
          /\ repo_idx \in 1..Len(REPOS) /\ repo = REPOS[repo_idx]
          /\ all_repo_commits = CommitsOfRepos(repo_idx - 1)
    /\ Collecting => ResolvedNumbers = IssuesOfRepos(repo_idx - 1)
    /\ Resolving =>
          /\ [i \in 1..Len(issues) |-> issues[i].number] = Sorted(FoundIn(repo))
          /\ issue_idx \in 1..(Len(issues) + 1)
          /\ ResolvedNumbers
                = IssuesOfRepos(repo_idx - 1)
                     \o SubSeq(Sorted(FoundIn(repo)), 1, issue_idx - 1)
    /\ Harvesting => ResolvedNumbers = IssuesOfRepos(repo_idx)
    /\ (pc \in {"report", "done"} \/ author_data # <<>>) =>
          /\ repo_idx = Len(REPOS) + 1
          /\ ResolvedNumbers = IssuesOfRepos(Len(REPOS))
          /\ all_repo_commits = CommitsOfRepos(Len(REPOS))

\* The commit collections the aggregation grouped hold no commit twice.
GroupedDeduplicated ==
    author_data # <<>> =>
        /\ all_repo_commits = dedupe_commits(all_repo_commits)
        /\ \A i \in 1..Len(all_issues_info) :
              all_issues_info[i].commits = dedupe_commits(all_issues_info[i].commits)
        /\ \A k \in 1..Len(author_data) :
              author_data[k].commits = dedupe_commits(author_data[k].commits)

\* C18 (as claimed): the stages of a run follow one another as above, and
\* the commit collections are deduplicated before the author aggregation
\* groups them.
C18_StagesForward == StagesInOrder /\ GroupedDeduplicated

-----------------------------------------------------------------------------
(* Claims on the dates of the window *)

\* A malformed text was given for the option.
Malformed(arg) == Given(arg) /\ arg[1] \in CliMalformed

\* C11: a request is sent only after both dates were parsed, and never in a
\* run that was given a malformed --since or --until: such a run ends on the
\* parse error with no request sent.
C11_DatesParsedBeforeRequests ==
    /\ log # <<>> =>
          /\ since_dt # None /\ until_dt # None
          /\ ~Malformed(since_arg) /\ ~Malformed(until_arg)
    /\ Malformed(since_arg) => pc \in {"parse_since", "raised"} /\ since_dt = None
    /\ Malformed(until_arg) =>
          pc \in {"parse_since", "parse_until", "raised"} /\ until_dt = None

\* C11 witness: --since was parsed, --until is no date, and the run ended
\* on the parse error before any request.
C11_Witness ==
    /\ pc = "raised"
    /\ since_dt # None
    /\ until_arg = Some(<<"y", "e", "s", "t", "e", "r", "d", "a", "y">>)
    /\ log = <<>>

\* a <= b for two datetimes of the same zone.
NotLater(a, b) ==
    LET ka == <<a.year, a.month, a.day, a.hour, a.minute, a.second, a.microsecond>>
        kb == <<b.year, b.month, b.day, b.hour, b.minute, b.second, b.microsecond>>
    IN  \/ ka = kb
        \/ \E i \in 1..7 : ka[i] < kb[i] /\ \A j \in 1..(i - 1) : ka[j] = kb[j]

\* C12 (as claimed): when a run reaches the collection of the issues, the
\* start of its window is not later than the end.
C12_StartNotAfterEnd ==
    Pending("main_issues") => NotLater(since_dt[1], until_dt[1])

\* The day of a bare date of the model.
DayOf(text) ==
    CASE text = <<"2", "0", "2", "3", "-", "0", "6", "-", "0", "1">> -> <<2023, 6, 1>>
      [] text = <<"2", "0", "2", "3", "-", "0", "6", "-", "0", "2">> -> <<2023, 6, 2>>
      [] text = <<"2", "0", "2", "4", "-", "0", "2", "-", "2", "9">> -> <<2024, 2, 29>>
      [] text = <<"2", "0", "2", "3", "-", "1", "2", "-", "3", "1">> -> <<2023, 12, 31>>

IsBareDate(arg) == Given(arg) /\ arg[1] \in BareDates

OnDayAt(d, text, hour, minute, second) ==
    /\ <<d.year, d.month, d.day>> = DayOf(text)
    /\ <<d.hour, d.minute, d.second>> = <<hour, minute, second>>
    /\ d.tzinfo = "America/Sao_Paulo"

\* C14: a bare date parsed with the start-of-day flag is 00:00:00 of that
\* day in America/Sao_Paulo, and 23:59:59 of that day when parsed without;
\* the query strings of the window are the date followed by T00:00:00-03:00
\* and T23:59:59-03:00.
C14_BareDateBounds ==
    /\ (IsBareDate(since_arg) /\ pc # "parse_since") =>
          /\ since_dt # None
          /\ OnDayAt(since_dt[1], since_arg[1], 0, 0, 0)
          /\ since_dt[1].microsecond = 0
    /\ (IsBareDate(until_arg) /\ pc \in {"main", "formatted"}) =>
          /\ until_dt # None
          /\ OnDayAt(until_dt[1], until_arg[1], 23, 59, 59)
    /\ pc = "formatted" =>
          /\ IsBareDate(since_arg) =>
                since_str = since_arg[1]
                   \o <<"T", "0", "0", ":", "0", "0", ":", "0", "0", "-", "0", "3", ":", "0", "0">>
          /\ IsBareDate(until_arg) =>
                until_str = until_arg[1]
                   \o <<"T", "2", "3", ":", "5", "9", ":", "5", "9", "-", "0", "3", ":", "0", "0">>

\* C14 witness: --since and --until are the same bare date, and the window
\* is the whole of that day.
C14_Witness ==
    /\ pc = "formatted"
    /\ since_arg = Some(<<"2", "0", "2", "3", "-", "0", "6", "-", "0", "1">>)
    /\ until_arg = since_arg
    /\ since_str = <<"2", "0", "2", "3", "-", "0", "6", "-", "0", "1", "T", "0", "0", ":", "0", "0", ":", "0", "0", "-", "0", "3", ":", "0", "0">>
    /\ until_str = <<"2", "0", "2", "3", "-", "0", "6", "-", "0", "1", "T", "2", "3", ":", "5", "9", ":", "5", "9", "-", "0", "3", ":", "0", "0">>

=============================================================================
